---- MODULE Spec2Model ----
(***************************************************************************)
(* Model of the kb API server (apps/api/src/main.rs): the ingestion job    *)
(* engine (JOBS / JOB_QUEUE / IDEMPOTENCY, the sled and Postgres stores,   *)
(* admin_jobs_create, job_runner, run_job_with_retries, run_job_once) and  *)
(* the query session state machine (session_start, session_stream,         *)
(* session_tool_result).                                                   *)
(***************************************************************************)
EXTENDS Integers, Sequences, FiniteSets, TLC

(***************************************************************************)
(* Bounds of the model.                                                    *)
(***************************************************************************)
MaxJobs == 2        \* jobs created over a whole behaviour (fresh Uuids)
MaxCrashes == 1     \* process kills followed by a restart
MaxFiles == 1       \* files a pdf glob can match
MaxSessions == 1    \* sessions created by session/start
MaxStreams == 2     \* session/stream requests over a whole behaviour
MaxToolResults == 1 \* session/tool_result requests over a whole behaviour
MaxEvents == 1      \* text, reasoning and final events forwarded on one stream
MaxCallers == 3     \* concurrent callers of the extraction client
MaxConcurrency == 2 \* largest value of EXTRACT_CONCURRENCY
MaxQueries == 2     \* POST /query requests over a whole behaviour
MaxResults == 3     \* citations one backend returns to the hybrid engine
MaxChunks == 3       \* chunks inserted into the lexical index
MaxValue == 5       \* characters of a value sent to PUT /admin/settings
MaxText == 5        \* characters of a text handed to chunk_and_index

(***************************************************************************)
(* Program constants.                                                      *)
(***************************************************************************)
JOB_MAX_RETRIES == 2    \* run_job_with_retries: unwrap_or(2)
JOB_RETRY_BASE_MS == 500 \* run_job_with_retries: unwrap_or(500)
EXTRACT_RETRIES == 2    \* extract_text_via_service_bytes: unwrap_or(2)
EXTRACT_RETRY_BASE_MS == 250 \* extract_text_via_service_bytes: unwrap_or(250)
RRF_K == 60             \* HybridConfig::default: FusionStrategy::RRF { k: 60.0 }
RETRIEVAL_MULTIPLIER == 2 \* HybridConfig::default: retrieval_multiplier: 2.0
MIN_WORD_LENGTH == 2    \* LexicalConfig::default: min_word_length: 2
MAX_QUERY_TERMS == 20   \* LexicalConfig::default: max_query_terms: 20
TFIDF_WEIGHT == 7       \* LexicalConfig::default: tfidf_weight: 0.7, in tenths
KEYWORD_WEIGHT == 3     \* LexicalConfig::default: keyword_weight: 0.3, in tenths

\* u64::saturating_mul, on values far below u64::MAX.
saturating_mul(a, b) == a * b

Payloads == {"pa", "pb"}
Keys == {"k1"}
Errors == {"e1", "e2"}

\* Option<T> is a sequence of length at most one.
None == <<>>
Some(x) == <<x>>
IsSome(o) == o # <<>>
Unwrap(o) == o[1]

JobIds == 1..MaxJobs

\* JobCreate: the bodies of POST /admin/jobs that are sent: two url jobs that carry
\* the same key and different payloads, and a pdf_glob job without a key.
JobCreate ==
    {[kind |-> "url", payload |-> p, idempotency_key |-> Some(k)] : p \in Payloads, k \in Keys}
    \cup {[kind |-> "pdf_glob", payload |-> "pa", idempotency_key |-> None]}

VARIABLES
    \* process configuration (fixed at process start, kept across restarts)
    pgOn,          \* built with feature "pg" and DATABASE_URL reachable
    extractUrl,    \* env EXTRACT_URL is set
    \* in-memory statics
    JOBS,          \* HashMap<Uuid, Job>
    JOB_QUEUE,     \* Vec<Uuid>
    IDEMPOTENCY,   \* HashMap<String, Uuid>
    \* durable state
    JOB_STORE,     \* sled: the three keys "jobs", "queue", "idem"
    PG,            \* Postgres: tables jobs, job_queue, idempotency
    \* the job_runner task
    pc,            \* where the runner is
    cur,           \* the id it popped (0: none)
    attempt,       \* run_job_with_retries: attempt
    backoff_ms,    \* run_job_with_retries: backoff_ms
    delays,        \* the sleeps of run_job_with_retries since the job was picked
    lastErr,       \* the Err(e) of the last run_job_once
    files,         \* pdf_glob without extractor: contents still to index
    loaded,        \* the (jobs, q, idem) read by load_all at startup
    \* admin_jobs_create requests between the idempotency check and the insert
    inflight,
    resp,          \* the last response of admin_jobs_create
    \* bookkeeping
    nextId,        \* Uuid::new_v4(): ids handed out so far
    crashes,       \* process kills so far
    acked,         \* per key, the (id, payload) of the first create that answered
    seenAttempts,  \* per job id, the largest attempts value the job table has shown
    \* the query session state machine
    redisOn,       \* env REDIS_URL is set and the server answers
    SESSIONS,      \* the session store: HashMap<Uuid, SessionState>, or Redis
    nextSid,       \* Uuid::new_v4(): session ids handed out so far
    streams,       \* the tasks spawned by session_stream and query_stream
    toolResults,   \* the session_tool_result requests
    \* the extraction client
    extractConcurrency, \* env EXTRACT_CONCURRENCY, parsed
    EXTRACT_SEM,   \* the permits left in the semaphore
    extractors,    \* the calls of extract_text_via_service_bytes
    \* retrieval
    queries,       \* the POST /query requests
    retrieval,     \* one query of a retrieval backend: its request and citations
    hybrid,        \* one perform_hybrid_search: its configuration, request and lists
    dedup,         \* one list handed to deduplicate_results, and what came back
    \* ingestion and administration
    chunker,       \* one call of chunk_and_index: its arguments and locals
    settings,      \* SETTINGS, the process environment and the last settings request
    kberr,         \* one KbError value and what one of its methods answered
    lexidx,        \* the LexicalIndex and the last search made on it
    locking        \* the guards on JOBS, JOB_QUEUE and IDEMPOTENCY, task by task

jobVars == <<pgOn, extractUrl, JOBS, JOB_QUEUE, IDEMPOTENCY, JOB_STORE, PG, pc, cur,
             attempt, backoff_ms, delays, lastErr, files, loaded, inflight, resp, nextId, crashes, acked>>

sessVars == <<redisOn, SESSIONS, nextSid, streams, toolResults>>

extractVars == <<extractConcurrency, EXTRACT_SEM, extractors>>

libVars == <<chunker, settings, kberr, lexidx, locking>>

ragVars == <<queries, retrieval, hybrid, dedup, libVars>>

vars == <<jobVars, seenAttempts, sessVars, extractVars, ragVars>>

EmptyMap == [x \in {} |-> 0]
EmptyStore == [jobs |-> EmptyMap, queue |-> <<>>, idem |-> EmptyMap]

\* HashMap::insert
Insert(m, k, v) == [x \in DOMAIN m \cup {k} |-> IF x = k THEN v ELSE m[x]]

\* The JSON answer of admin_jobs_create, with the key of the request it answers.
NoResp == [job_id |-> 0, idempotent |-> FALSE, key |-> None]

(***************************************************************************)
(* Job records and the two stores.                                         *)
(***************************************************************************)
\* admin_jobs_create: the Job it builds.
NewJob(req) ==
    [kind |-> req.kind, payload |-> req.payload, status |-> "pending", message |-> None,
     attempts |-> 0, idempotency_key |-> req.idempotency_key, progress |-> None,
     resume |-> None]

\* The three in-memory statics as one value.
Mem == [jobs |-> JOBS, queue |-> JOB_QUEUE, idem |-> IDEMPOTENCY]

\* SledStore::save_all writes the keys "jobs", "queue", "idem" one insert after the
\* other; n is the number of inserts that reached the disk (3: all of them).
SaveAllPrefix(n, m) ==
    [jobs |-> IF n >= 1 THEN m.jobs ELSE JOB_STORE.jobs,
     queue |-> IF n >= 2 THEN m.queue ELSE JOB_STORE.queue,
     idem |-> IF n >= 3 THEN m.idem ELSE JOB_STORE.idem]

save_all(m) == SaveAllPrefix(3, m)

\* SledStore::load_all
load_all == JOB_STORE

\* pg_jobstore: one statement each; no-ops when the feature is off.
upsert_job(pg, id, job) == IF pgOn THEN [pg EXCEPT !.jobs = Insert(pg.jobs, id, job)] ELSE pg

InSeq(q, x) == \E i \in 1..Len(q) : q[i] = x

enqueue(pg, id) ==
    IF pgOn /\ ~InSeq(pg.queue, id) THEN [pg EXCEPT !.queue = Append(pg.queue, id)] ELSE pg

dequeue(pg, id) ==
    IF pgOn THEN [pg EXCEPT !.queue = SelectSeq(pg.queue, LAMBDA x : x # id)] ELSE pg

upsert_idem(pg, key, id) == IF pgOn THEN [pg EXCEPT !.idem = Insert(pg.idem, key, id)] ELSE pg

\* job_runner: `!jobs.is_empty() || !q.is_empty() || !idem.is_empty()`
NonEmpty(s) == s.jobs # EmptyMap \/ s.queue # <<>> \/ s.idem # EmptyMap

\* The JOBS write guard is held for ever by a runner that awaits JOBS.read() inside
\* `if let Some(job) = JOBS.write().await.get_mut(&id) { .. }`.
JobsLockFree == pc # "blocked"

(***************************************************************************)
(* Process start and kill.                                                 *)
(***************************************************************************)
JobInit ==
    /\ pgOn \in BOOLEAN
    /\ extractUrl \in BOOLEAN
    /\ JOBS = EmptyMap
    /\ JOB_QUEUE = <<>>
    /\ IDEMPOTENCY = EmptyMap
    /\ JOB_STORE = EmptyStore
    /\ PG = EmptyStore
    /\ pc = "load"
    /\ cur = 0
    /\ attempt = 0
    /\ backoff_ms = JOB_RETRY_BASE_MS
    /\ delays = <<>>
    /\ lastErr = None
    /\ files = 0
    /\ loaded = None
    /\ inflight = {}
    /\ resp = NoResp
    /\ nextId = 0
    /\ crashes = 0
    /\ acked = EmptyMap

\* The process is killed and started again: every static is back to its initial
\* value, main spawns job_runner, the stores keep what was written.
Restarted ==
    /\ crashes < MaxCrashes
    /\ crashes' = crashes + 1
    /\ JOBS' = EmptyMap
    /\ JOB_QUEUE' = <<>>
    /\ IDEMPOTENCY' = EmptyMap
    /\ pc' = "load"
    /\ cur' = 0
    /\ attempt' = 0
    /\ backoff_ms' = JOB_RETRY_BASE_MS
    /\ delays' = <<>>
    /\ lastErr' = None
    /\ files' = 0
    /\ loaded' = None
    /\ inflight' = {}
    /\ resp' = NoResp
    /\ UNCHANGED <<pgOn, extractUrl, acked>>

Crash ==
    /\ Restarted
    /\ UNCHANGED <<JOB_STORE, PG, nextId>>

(***************************************************************************)
(* admin_jobs_create                                                       *)
(***************************************************************************)
\* The state the insert block (lines 2054-2075) leaves in memory.
CreateMem(req, id) ==
    [jobs |-> Insert(JOBS, id, NewJob(req)),
     queue |-> Append(JOB_QUEUE, id),
     idem |-> IF IsSome(req.idempotency_key)
              THEN Insert(IDEMPOTENCY, Unwrap(req.idempotency_key), id)
              ELSE IDEMPOTENCY]

\* The key the find_map over IDEMPOTENCY returns for the new id.
KeyOf(idem, id) == {k \in DOMAIN idem : idem[k] = id}

\* PG after the first n of: upsert_job, enqueue, upsert_idem.
CreatePg(req, id, n) ==
    LET m == CreateMem(req, id)
        p1 == IF n >= 1 THEN upsert_job(PG, id, m.jobs[id]) ELSE PG
        p2 == IF n >= 2 THEN enqueue(p1, id) ELSE p1
        ks == KeyOf(m.idem, id)
    IN IF n >= 3 /\ ks # {} THEN upsert_idem(p2, CHOOSE k \in ks : TRUE, id) ELSE p2

Keyed(req) == IsSome(req.idempotency_key)

\* Lines 2034-2038: the key is known, the existing id is returned.
CreateIdempotent(req) ==
    /\ Keyed(req)
    /\ Unwrap(req.idempotency_key) \in DOMAIN IDEMPOTENCY
    /\ resp' = [job_id |-> IDEMPOTENCY[Unwrap(req.idempotency_key)], idempotent |-> TRUE,
                key |-> req.idempotency_key]
    /\ UNCHANGED <<pgOn, extractUrl, JOBS, JOB_QUEUE, IDEMPOTENCY, JOB_STORE, PG, pc, cur,
                   attempt, backoff_ms, delays, lastErr, files, loaded, inflight, nextId, crashes, acked>>

\* Lines 2034-2053: the key is not in the map; the read guard is dropped and the
\* request goes on to the insert block.
CreateCheckMiss(req) ==
    /\ Keyed(req)
    /\ Unwrap(req.idempotency_key) \notin DOMAIN IDEMPOTENCY
    /\ req \notin inflight
    /\ nextId + Cardinality(inflight) < MaxJobs
    /\ inflight' = inflight \cup {req}
    /\ resp' = NoResp
    /\ UNCHANGED <<pgOn, extractUrl, JOBS, JOB_QUEUE, IDEMPOTENCY, JOB_STORE, PG, pc, cur,
                   attempt, backoff_ms, delays, lastErr, files, loaded, nextId, crashes, acked>>

\* A request that may enter the insert block now.
CanInsert(req) ==
    /\ req \in inflight \/ (~Keyed(req) /\ nextId + Cardinality(inflight) < MaxJobs)
    /\ JobsLockFree

\* Lines 2039-2076.
CreateInsert(req) ==
    /\ CanInsert(req)
    /\ LET id == nextId + 1
           m == CreateMem(req, id)
       IN /\ JOBS' = m.jobs
          /\ JOB_QUEUE' = m.queue
          /\ IDEMPOTENCY' = m.idem
          /\ JOB_STORE' = save_all(m)
          /\ PG' = CreatePg(req, id, 3)
          /\ resp' = [job_id |-> id, idempotent |-> FALSE, key |-> req.idempotency_key]
          /\ nextId' = id
          /\ acked' = IF Keyed(req) /\ Unwrap(req.idempotency_key) \notin DOMAIN acked
                      THEN Insert(acked, Unwrap(req.idempotency_key),
                                  [id |-> id, payload |-> req.payload])
                      ELSE acked
    /\ inflight' = inflight \ {req}
    /\ UNCHANGED <<pgOn, extractUrl, pc, cur, attempt, backoff_ms, delays, lastErr, files, loaded, crashes>>

admin_jobs_create ==
    \E req \in JobCreate :
        \/ CreateIdempotent(req)
        \/ CreateCheckMiss(req)
        \/ CreateInsert(req)

(***************************************************************************)
(* job_runner: startup restoration                                         *)
(***************************************************************************)
\* Lines 2154 and 2169: pg_jobstore::load_all() is Some with the feature on,
\* else JOB_STORE.load_all().
RestoreLoad ==
    /\ pc = "load"
    /\ loaded' = Some(IF pgOn THEN PG ELSE load_all)
    /\ pc' = "assign"
    /\ UNCHANGED <<pgOn, extractUrl, JOBS, JOB_QUEUE, IDEMPOTENCY, JOB_STORE, PG, cur,
                   attempt, backoff_ms, delays, lastErr, files, inflight, resp, nextId, crashes, acked>>

\* Lines 2155-2167 and 2170-2178: the statics are replaced when anything was read.
RestoreAssign ==
    /\ pc = "assign"
    /\ LET l == Unwrap(loaded)
       IN IF NonEmpty(l)
          THEN /\ JOBS' = l.jobs
               /\ JOB_QUEUE' = l.queue
               /\ IDEMPOTENCY' = l.idem
          ELSE UNCHANGED <<JOBS, JOB_QUEUE, IDEMPOTENCY>>
    /\ loaded' = None
    /\ pc' = "reset"
    /\ UNCHANGED <<pgOn, extractUrl, JOB_STORE, PG, cur, attempt, backoff_ms, delays, lastErr, files, inflight,
                   resp, nextId, crashes, acked>>

\* The restoration without its reset loop.
ResetRunningSkipped(jobs) == jobs

\* Lines 2183-2187: every running job goes back to pending.
ResetRunning(jobs) ==
    [id \in DOMAIN jobs |->
        IF jobs[id].status = "running" THEN [jobs[id] EXCEPT !.status = "pending"]
        ELSE jobs[id]]

ResetMem == [jobs |-> ResetRunning(JOBS), queue |-> JOB_QUEUE, idem |-> IDEMPOTENCY]

\* Lines 2181-2189: every running job becomes pending; saved to sled only.
RestoreReset ==
    /\ pc = "reset"
    /\ JOBS' = ResetMem.jobs
    /\ JOB_STORE' = save_all(ResetMem)
    /\ pc' = "poll"
    /\ UNCHANGED <<pgOn, extractUrl, JOB_QUEUE, IDEMPOTENCY, PG, cur, attempt, backoff_ms, delays, lastErr,
                   files, loaded, inflight, resp, nextId, crashes, acked>>

(***************************************************************************)
(* job_runner: the worker loop                                             *)
(***************************************************************************)
\* Vec::pop takes the last element.
Last(q) == q[Len(q)]
Front(q) == SubSeq(q, 1, Len(q) - 1)

\* Lines 2192-2196: pop an id, delete it from the PG queue.
WorkerPop ==
    /\ pc = "poll"
    /\ JOB_QUEUE # <<>>
    /\ cur' = Last(JOB_QUEUE)
    /\ JOB_QUEUE' = Front(JOB_QUEUE)
    /\ PG' = dequeue(PG, Last(JOB_QUEUE))
    /\ pc' = "mark"
    /\ UNCHANGED <<pgOn, extractUrl, JOBS, IDEMPOTENCY, JOB_STORE, attempt, backoff_ms, delays, lastErr, files,
                   loaded, inflight, resp, nextId, crashes, acked>>

\* `if let Some(job) = JOBS.write().await.get_mut(&id) { f(job) }`
UpdateJob(jobs, id, job) ==
    IF id \in DOMAIN jobs THEN [jobs EXCEPT ![id] = job] ELSE jobs

\* A runner that starts the job without marking it.
SetRunningSkipped(job) == job

SetRunning(job) == [job EXCEPT !.status = "running"]

MarkMem == [jobs |-> UpdateJob(JOBS, cur, SetRunning(JOBS[cur])), queue |-> JOB_QUEUE,
            idem |-> IDEMPOTENCY]

\* `if let Some(j) = JOBS.read().await.get(&id) { pg_jobstore::upsert_job(j) }`
UpsertIfPresent(pg, jobs, id) == IF id \in DOMAIN jobs THEN upsert_job(pg, id, jobs[id]) ELSE pg

\* Lines 2197-2210: mark the job running and persist.
WorkerMark ==
    /\ pc = "mark"
    /\ JOBS' = MarkMem.jobs
    /\ JOB_STORE' = save_all(MarkMem)
    /\ PG' = UpsertIfPresent(PG, MarkMem.jobs, cur)
    /\ attempt' = 0
    /\ backoff_ms' = JOB_RETRY_BASE_MS
    /\ delays' = <<>>
    /\ pc' = "attempt"
    /\ UNCHANGED <<pgOn, extractUrl, JOB_QUEUE, IDEMPOTENCY, cur, lastErr, files, loaded,
                   inflight, resp, nextId, crashes, acked>>

\* format!("attempt {}", attempt)
AttemptMessage(n) == "attempt " \o ToString(n)

SetAttempt(job, n) == [job EXCEPT !.attempts = n, !.message = Some(AttemptMessage(n))]

\* Lines 2255-2261: the head of the retry loop.
BeginAttempt ==
    /\ pc = "attempt"
    /\ attempt' = attempt + 1
    /\ UNCHANGED <<backoff_ms, delays>>
    /\ JOBS' = UpdateJob(JOBS, cur, SetAttempt(JOBS[cur], attempt + 1))
    /\ pc' = "once"
    /\ UNCHANGED <<pgOn, extractUrl, JOB_QUEUE, IDEMPOTENCY, JOB_STORE, PG, cur, lastErr,
                   files, loaded, inflight, resp, nextId, crashes, acked>>

\* A retry loop that allows one retry less.
AfterErrOneShort(e) ==
    /\ lastErr' = Some(e)
    /\ pc' = IF attempt < JOB_MAX_RETRIES THEN "attempt" ELSE "fail"
    /\ delays' = IF attempt < JOB_MAX_RETRIES THEN Append(delays, backoff_ms) ELSE delays
    /\ backoff_ms' = IF attempt < JOB_MAX_RETRIES THEN saturating_mul(backoff_ms, 2)
                     ELSE backoff_ms

\* Lines 2262-2273: what run_job_with_retries does with the result of an attempt.
AfterErr(e) ==
    /\ lastErr' = Some(e)
    /\ pc' = IF attempt <= JOB_MAX_RETRIES THEN "attempt" ELSE "fail"
    /\ delays' = IF attempt <= JOB_MAX_RETRIES THEN Append(delays, backoff_ms) ELSE delays
    /\ backoff_ms' = IF attempt <= JOB_MAX_RETRIES THEN saturating_mul(backoff_ms, 2)
                     ELSE backoff_ms

\* Lines 2278-2279: the job is not in JOBS.
RunNotFound ==
    /\ pc = "once"
    /\ cur \notin DOMAIN JOBS
    /\ AfterErr("job not found")
    /\ UNCHANGED <<pgOn, extractUrl, JOBS, JOB_QUEUE, IDEMPOTENCY, JOB_STORE, PG, cur,
                   attempt, files, loaded, inflight, resp, nextId, crashes, acked>>

\* Lines 2281-2310: a url job; the fetch fails with some error or the text is indexed.
RunUrlOk ==
    /\ pc = "once"
    /\ cur \in DOMAIN JOBS
    /\ JOBS[cur].kind = "url"
    /\ pc' = "succeed"
    /\ UNCHANGED <<pgOn, extractUrl, JOBS, JOB_QUEUE, IDEMPOTENCY, JOB_STORE, PG, cur,
                   attempt, backoff_ms, delays, lastErr, files, loaded, inflight, resp, nextId, crashes, acked>>

RunUrlErr ==
    /\ pc = "once"
    /\ cur \in DOMAIN JOBS
    /\ JOBS[cur].kind = "url"
    /\ \E e \in Errors : AfterErr(e)
    /\ UNCHANGED <<pgOn, extractUrl, JOBS, JOB_QUEUE, IDEMPOTENCY, JOB_STORE, PG, cur,
                   attempt, files, loaded, inflight, resp, nextId, crashes, acked>>

\* expand_simple_glob: the paths are 1..n.
Paths(n) == [i \in 1..n |-> i]

\* Lines 2335-2341: the stored resume record, else a fresh expansion of the glob.
ResumePoint(job, n) ==
    IF IsSome(job.resume)
    THEN [paths |-> Unwrap(job.resume).paths, idx |-> Unwrap(job.resume).next]
    ELSE [paths |-> Paths(n), idx |-> 0]

\* A first record that counts the file it is about to start as completed.
InitResumeOneAhead(job, r) ==
    [job EXCEPT
        !.progress = Some([total |-> Some(Len(r.paths)), completed |-> r.idx + 1,
                           current |-> None]),
        !.resume = Some([paths |-> r.paths, next |-> r.idx])]

InitResume(job, r) ==
    [job EXCEPT
        !.progress = Some([total |-> Some(Len(r.paths)), completed |-> r.idx,
                           current |-> None]),
        !.resume = Some([paths |-> r.paths, next |-> r.idx])]

\* Lines 2333-2362, EXTRACT_URL set: progress and resume are written under the
\* JOBS write guard, and save_all then awaits JOBS.read() with the guard still
\* held: the runner never gets past this statement.
PdfResumeInit ==
    /\ pc = "once"
    /\ cur \in DOMAIN JOBS
    /\ JOBS[cur].kind = "pdf_glob"
    /\ extractUrl
    /\ \E n \in 0..MaxFiles :
          JOBS' = UpdateJob(JOBS, cur, InitResume(JOBS[cur], ResumePoint(JOBS[cur], n)))
    /\ pc' = "blocked"
    /\ UNCHANGED <<pgOn, extractUrl, JOB_QUEUE, IDEMPOTENCY, JOB_STORE, PG, cur, attempt, backoff_ms, delays,
                   lastErr, files, loaded, inflight, resp, nextId, crashes, acked>>

\* Lines 2402-2406, EXTRACT_URL unset: the loader reads every matching pdf.
PdfNativeLoad ==
    /\ pc = "once"
    /\ cur \in DOMAIN JOBS
    /\ JOBS[cur].kind = "pdf_glob"
    /\ ~extractUrl
    /\ files' \in 0..MaxFiles
    /\ pc' = "native"
    /\ UNCHANGED <<pgOn, extractUrl, JOBS, JOB_QUEUE, IDEMPOTENCY, JOB_STORE, PG, cur,
                   attempt, backoff_ms, delays, lastErr, loaded, inflight, resp, nextId, crashes, acked>>

\* Lines 2407-2413: one file is chunked and indexed; no progress is recorded.
PdfNativeIndex ==
    /\ pc = "native"
    /\ files > 0
    /\ files' = files - 1
    /\ UNCHANGED <<pgOn, extractUrl, JOBS, JOB_QUEUE, IDEMPOTENCY, JOB_STORE, PG, pc, cur,
                   attempt, backoff_ms, delays, lastErr, loaded, inflight, resp, nextId, crashes, acked>>

\* Lines 2415-2416.
PdfNativeDone ==
    /\ pc = "native"
    /\ files = 0
    /\ pc' = "succeed"
    /\ UNCHANGED <<pgOn, extractUrl, JOBS, JOB_QUEUE, IDEMPOTENCY, JOB_STORE, PG, cur,
                   attempt, backoff_ms, delays, lastErr, files, loaded, inflight, resp, nextId, crashes, acked>>

\* A final failure that records the message and leaves the job running.
SetErrorMessageOnly(job, e) == [job EXCEPT !.message = e]

SetError(job, e) == [job EXCEPT !.status = "error", !.message = e]

FailMem == [jobs |-> UpdateJob(JOBS, cur, SetError(JOBS[cur], lastErr)), queue |-> JOB_QUEUE,
            idem |-> IDEMPOTENCY]

\* Lines 2211-2225: the retries are used up; error and its message are persisted.
WorkerFail ==
    /\ pc = "fail"
    /\ JOBS' = FailMem.jobs
    /\ JOB_STORE' = save_all(FailMem)
    /\ PG' = UpsertIfPresent(PG, FailMem.jobs, cur)
    /\ pc' = "poll"
    /\ cur' = 0
    /\ attempt' = 0
    /\ backoff_ms' = JOB_RETRY_BASE_MS
    /\ delays' = <<>>
    /\ lastErr' = None
    /\ UNCHANGED <<pgOn, extractUrl, JOB_QUEUE, IDEMPOTENCY, files, loaded, inflight, resp,
                   nextId, crashes, acked>>

SetDone(job) == [job EXCEPT !.status = "done"]

\* Lines 2226-2238: status = done is written under the JOBS write guard of the
\* `else if let`, and save_all then awaits JOBS.read() with the guard still held.
WorkerSucceed ==
    /\ pc = "succeed"
    /\ JOBS' = UpdateJob(JOBS, cur, SetDone(JOBS[cur]))
    /\ pc' = "blocked"
    /\ UNCHANGED <<pgOn, extractUrl, JOB_QUEUE, IDEMPOTENCY, JOB_STORE, PG, cur, attempt, backoff_ms, delays,
                   lastErr, files, loaded, inflight, resp, nextId, crashes, acked>>

run_job_once == RunNotFound \/ RunUrlOk \/ RunUrlErr \/ PdfResumeInit \/ PdfNativeLoad \/ PdfNativeIndex
                \/ PdfNativeDone

job_runner ==
    \/ RestoreLoad
    \/ RestoreAssign
    \/ RestoreReset
    \/ WorkerPop
    \/ WorkerMark
    \/ BeginAttempt
    \/ run_job_once
    \/ WorkerFail
    \/ WorkerSucceed

(***************************************************************************)
(* A kill while a handler is persisting.                                   *)
(***************************************************************************)
\* The saves that can be under way: what save_all is given, the PG states after
\* each of the PG statements that follow it, and the ids handed out.
PendingSaves ==
    {[mem |-> CreateMem(req, nextId + 1),
      pg |-> <<CreatePg(req, nextId + 1, 1), CreatePg(req, nextId + 1, 2)>>,
      ids |-> nextId + 1] : req \in {r \in JobCreate : CanInsert(r)}}
    \cup (IF pc = "reset" THEN {[mem |-> ResetMem, pg |-> <<>>, ids |-> nextId]} ELSE {})
    \cup (IF pc = "mark" THEN {[mem |-> MarkMem, pg |-> <<>>, ids |-> nextId]} ELSE {})
    \cup (IF pc = "fail" THEN {[mem |-> FailMem, pg |-> <<>>, ids |-> nextId]} ELSE {})

\* The process is killed inside save_all: only the first one or two inserts are on
\* disk.
KilledInSaveAll ==
    /\ \E s \in PendingSaves, n \in 1..2 :
          /\ JOB_STORE' = SaveAllPrefix(n, s.mem)
          /\ nextId' = s.ids
    /\ UNCHANGED PG
    /\ Restarted

\* The process is killed after save_all, between the PG statements of
\* admin_jobs_create.
KilledInPg ==
    /\ pgOn
    /\ \E s \in PendingSaves :
          /\ s.pg # <<>>
          /\ JOB_STORE' = save_all(s.mem)
          /\ nextId' = s.ids
          /\ \E n \in 1..Len(s.pg) : PG' = s.pg[n]
    /\ Restarted

JobNext == admin_jobs_create \/ job_runner \/ Crash \/ KilledInSaveAll \/ KilledInPg

(***************************************************************************)
(* The query session state machine                                         *)
(***************************************************************************)
SessionIds == 1..MaxSessions
StreamIds == 1..MaxStreams
ToolResultIds == 1..MaxToolResults

\* The tool calls the model can emit: rig's ToolCall {id, call_id, function.name}.
ToolCalls ==
    {[id |-> "t1", call_id |-> None, name |-> "time_now"],
     [id |-> "t2", call_id |-> Some("c2"), name |-> "time_now"]}

\* session_start: SessionState with an empty history and no pending tool (query,
\* top_k and filters are never written again and are left out).
NewSession == [chat_history |-> <<>>, pending_tool |-> None]

\* Message::Assistant { content: ToolCall(tc) }
AssistantToolCall(tc) == [role |-> "assistant", id |-> tc.id, call_id |-> tc.call_id]

\* Message::User { content: tool_result(&p.id, ..) } or tool_result_with_call_id
UserToolResult(p) == [role |-> "user", id |-> p.id, call_id |-> p.call_id]

\* PendingTool { id, call_id, name }
PendingTool(tc) == [id |-> tc.id, call_id |-> tc.call_id, name |-> tc.name]

\* load_session: Option<SessionState>
load_session(sid) == IF sid \in DOMAIN SESSIONS THEN Some(SESSIONS[sid]) ELSE None

\* save_session
save_session(sid, st) == Insert(SESSIONS, sid, st)

\* A task not spawned yet. open: the client still holds the receiving end of the
\* channel; failed: a tx.send has returned Err.
IdleStream == [pc |-> "idle", kind |-> "none", sid |-> 0, st |-> NewSession, tc |-> None,
               s |-> None, events |-> <<>>, open |-> TRUE, failed |-> FALSE]
IdleToolResult == [pc |-> "idle", sid |-> 0, st |-> None, status |-> "none"]

SessInit ==
    /\ redisOn \in BOOLEAN
    /\ SESSIONS = EmptyMap
    /\ nextSid = 0
    /\ streams = [t \in StreamIds |-> IdleStream]
    /\ toolResults = [r \in ToolResultIds |-> IdleToolResult]

\* Lines 1285-1296.
session_start ==
    /\ nextSid < MaxSessions
    /\ nextSid' = nextSid + 1
    /\ SESSIONS' = save_session(nextSid + 1, NewSession)
    /\ UNCHANGED <<redisOn, streams, toolResults>>

\* Line 1601: the key set with EXPIRE SESS_TTL_SECS is dropped by Redis once the
\* time is up; the process-local map never drops a session.
SessionExpire(sid) ==
    /\ redisOn
    /\ sid \in DOMAIN SESSIONS
    /\ SESSIONS' = [k \in DOMAIN SESSIONS \ {sid} |-> SESSIONS[k]]
    /\ UNCHANGED <<redisOn, nextSid, streams, toolResults>>

\* let _ = tx.send(Event).await: the event is queued on the stream's channel; once
\* the receiver is dropped the send returns Err, which the task ignores.
Send(t, ev) ==
    IF streams[t].open THEN [streams[t] EXCEPT !.events = Append(@, ev)]
    ELSE [streams[t] EXCEPT !.failed = TRUE]

\* The spawned task returns: its locals (st, the tool call, the reloaded state)
\* are dropped; what it sent stays on the channel.
TaskReturn(rec) ==
    [rec EXCEPT !.pc = "done", !.st = NewSession, !.tc = None, !.s = None]

\* The client disconnects: Sse drops the ReceiverStream.
ClientDisconnect(t) ==
    /\ streams[t].pc \notin {"idle", "done"}
    /\ streams[t].open
    /\ streams' = [streams EXCEPT ![t].open = FALSE]
    /\ UNCHANGED <<redisOn, SESSIONS, nextSid, toolResults>>

\* Lines 1350-1359: the spawned task reads the session; an unknown id ends the
\* stream with an error event.
StreamOpen(t, sid) ==
    /\ streams[t].pc = "idle"
    /\ \A u \in StreamIds : u < t => streams[u].pc # "idle"
    /\ streams' = [streams EXCEPT ![t] =
          IF IsSome(load_session(sid))
          THEN [@ EXCEPT !.pc = "setup", !.kind = "session", !.sid = sid,
                         !.st = Unwrap(load_session(sid))]
          ELSE [Send(t, "error") EXCEPT !.pc = "done", !.kind = "session", !.sid = sid]]
    /\ UNCHANGED <<redisOn, SESSIONS, nextSid, toolResults>>

\* Lines 1362-1452: load_config, the Qdrant client, stream_completion or
\* builder.stream() fails.
StreamSetupErr(t) ==
    /\ streams[t].pc = "setup"
    /\ streams' = [streams EXCEPT ![t] = TaskReturn(Send(t, "error"))]
    /\ UNCHANGED <<redisOn, SESSIONS, nextSid, toolResults>>

\* Lines 1432-1452: the completion is requested with st.query and st.chat_history;
\* st.pending_tool is not read.
StreamBegin(t) ==
    /\ streams[t].pc = "setup"
    /\ streams' = [streams EXCEPT ![t].pc = "streaming"]
    /\ UNCHANGED <<redisOn, SESSIONS, nextSid, toolResults>>

\* Lines 1148-1177 and 1227-1240: query_stream spawns its task; the agent's hook
\* forwards tool_call and tool_result, the loop forwards text and final.
QueryOpen(t) ==
    /\ streams[t].pc = "idle"
    /\ \A u \in StreamIds : u < t => streams[u].pc # "idle"
    /\ streams' = [streams EXCEPT ![t].pc = "streaming", ![t].kind = "query"]
    /\ UNCHANGED <<redisOn, SESSIONS, nextSid, toolResults>>

\* The events each loop forwards without leaving the loop.
StreamEvents(kind) ==
    IF kind = "session" THEN {"text", "reasoning", "final"}
    ELSE {"text", "final", "tool_call", "tool_result"}

AllEvents == {"text", "reasoning", "final", "tool_call", "tool_result"}

\* Lines 1456-1467 and 1492-1497 (session_stream), 1229-1240 (query_stream): the
\* event is forwarded and the loop goes on.
StreamForward(t, ev) ==
    /\ streams[t].pc = "streaming"
    /\ ev \in StreamEvents(streams[t].kind)
    /\ Len(streams[t].events) < MaxEvents
    /\ streams' = [streams EXCEPT ![t] = Send(t, ev)]
    /\ UNCHANGED <<redisOn, SESSIONS, nextSid, toolResults>>

\* Lines 1498-1503: an Err chunk is forwarded as an error event; break.
StreamErr(t) ==
    /\ streams[t].pc = "streaming"
    /\ streams' = [streams EXCEPT ![t] = TaskReturn(Send(t, "error"))]
    /\ UNCHANGED <<redisOn, SESSIONS, nextSid, toolResults>>

\* Line 1453: stream.next() is None.
StreamEnd(t) ==
    /\ streams[t].pc = "streaming"
    /\ streams' = [streams EXCEPT ![t] = TaskReturn(@)]
    /\ UNCHANGED <<redisOn, SESSIONS, nextSid, toolResults>>

\* Line 1468: the model emits a ToolCall.
StreamToolCall(t, tc) ==
    /\ streams[t].pc = "streaming"
    /\ streams[t].kind = "session"
    /\ streams' = [streams EXCEPT ![t].pc = "tc_load", ![t].tc = Some(tc)]
    /\ UNCHANGED <<redisOn, SESSIONS, nextSid, toolResults>>

\* Lines 1473-1481: the entry and the pending tool written into the loaded state.
WithToolCall(s, tc) ==
    [s EXCEPT !.chat_history = Append(@, AssistantToolCall(tc)),
              !.pending_tool = Some(PendingTool(tc))]

\* Line 1472: the session is read again.
ToolCallLoad(t) ==
    /\ streams[t].pc = "tc_load"
    /\ streams' = [streams EXCEPT ![t].pc = "tc_save",
                                  ![t].s = load_session(streams[t].sid)]
    /\ UNCHANGED <<redisOn, SESSIONS, nextSid, toolResults>>

\* Lines 1473-1483: the updated state is saved, when the session was found.
ToolCallSave(t) ==
    /\ streams[t].pc = "tc_save"
    /\ SESSIONS' = IF IsSome(streams[t].s)
                   THEN save_session(streams[t].sid,
                                     WithToolCall(Unwrap(streams[t].s), Unwrap(streams[t].tc)))
                   ELSE SESSIONS
    /\ streams' = [streams EXCEPT ![t].pc = "tc_send"]
    /\ UNCHANGED <<redisOn, nextSid, toolResults>>

\* Lines 1484-1490: the tool_call event is forwarded; break.
ToolCallSend(t) ==
    /\ streams[t].pc = "tc_send"
    /\ streams' = [streams EXCEPT ![t] = TaskReturn(Send(t, "tool_call"))]
    /\ UNCHANGED <<redisOn, SESSIONS, nextSid, toolResults>>

\* The loop shared by both streaming tasks.
StreamLoop(t) ==
    \/ \E ev \in AllEvents : StreamForward(t, ev)
    \/ StreamErr(t)
    \/ StreamEnd(t)

session_stream_task(t) ==
    \/ \E sid \in SessionIds : StreamOpen(t, sid)
    \/ StreamSetupErr(t)
    \/ StreamBegin(t)
    \/ streams[t].kind = "session" /\ StreamLoop(t)
    \/ \E tc \in ToolCalls : StreamToolCall(t, tc)
    \/ ToolCallLoad(t)
    \/ ToolCallSave(t)
    \/ ToolCallSend(t)

session_stream == \E t \in StreamIds : session_stream_task(t)

query_stream_task(t) ==
    \/ QueryOpen(t)
    \/ streams[t].kind = "query" /\ StreamLoop(t)

query_stream == \E t \in StreamIds : query_stream_task(t)

\* Line 1307: the handler reads the session.
ToolResultLoad(r, sid) ==
    /\ toolResults[r].pc = "idle"
    /\ \A u \in ToolResultIds : u < r => toolResults[u].pc # "idle"
    /\ toolResults' = [toolResults EXCEPT ![r] =
          [pc |-> "loaded", sid |-> sid, st |-> load_session(sid), status |-> "none"]]
    /\ UNCHANGED <<redisOn, SESSIONS, nextSid, streams>>

\* Lines 1310-1323: the tool result entry is pushed and the pending tool cleared.
WithToolResult(st) ==
    [st EXCEPT !.chat_history = Append(@, UserToolResult(Unwrap(st.pending_tool))),
               !.pending_tool = None]

\* A handler that tells a session without a pending tool from no session at all.
ToolResultStatusFoundOnly(st) ==
    IF IsSome(st) /\ IsSome(Unwrap(st).pending_tool) THEN "ok" ELSE "not_found"

\* Lines 1307-1329: the answer, and the save when a tool was pending.
ToolResultStatus(st) ==
    IF ~IsSome(st) THEN "not_found"
    ELSE IF IsSome(Unwrap(st).pending_tool) THEN "ok" ELSE "no_pending_tool"

ToolResultFinish(r) ==
    /\ toolResults[r].pc = "loaded"
    /\ SESSIONS' = IF ToolResultStatus(toolResults[r].st) = "ok"
                   THEN save_session(toolResults[r].sid,
                                     WithToolResult(Unwrap(toolResults[r].st)))
                   ELSE SESSIONS
    /\ toolResults' = [toolResults EXCEPT ![r].pc = "done",
                                          ![r].st = None,
                                          ![r].status = ToolResultStatus(toolResults[r].st)]
    /\ UNCHANGED <<redisOn, nextSid, streams>>

session_tool_result ==
    \E r \in ToolResultIds :
        \/ \E sid \in SessionIds : ToolResultLoad(r, sid)
        \/ ToolResultFinish(r)

SessNext ==
    \/ session_start
    \/ session_stream
    \/ session_tool_result
    \/ \E sid \in SessionIds : SessionExpire(sid)

\* One streaming task and its client.
StreamNext ==
    \/ session_start
    \/ session_stream_task(1)
    \/ query_stream_task(1)
    \/ ClientDisconnect(1)

(***************************************************************************)
(* The extraction client (kb-rag)                                          *)
(***************************************************************************)
CallerIds == 1..MaxCallers

\* What one POST to the extractor ends with: a success whose body is read or not,
\* a status, or a transport error. "429ra" is a 429 that carries the header
\* Retry-After: 5.
Responses == {"ok", "unreadable", "429", "429ra", "500", "404", "neterr"}

\* The delay a response asks for in its Retry-After header, in milliseconds
\* (0: no header).
RetryAfterMs(r) == IF r = "429ra" THEN 5000 ELSE 0

\* A semaphore created with one permit too many.
PermitsOneMore(n) == n + 1

\* Lines 185-189: the number of permits of EXTRACT_SEM.
Permits(n) == IF n = 0 THEN 1 ELSE n

IdleCall == [pc |-> "idle", attempt |-> 0, backoff_ms |-> EXTRACT_RETRY_BASE_MS,
             slept |-> <<>>, last |-> "none", result |-> "none"]

ExtractInit ==
    /\ extractConcurrency \in 0..MaxConcurrency
    /\ EXTRACT_SEM = Permits(extractConcurrency)
    /\ extractors = [c \in CallerIds |-> IdleCall]

\* Line 179: a caller enters extract_text_via_service_bytes.
ExtractCall(c) ==
    /\ extractors[c].pc = "idle"
    /\ \A d \in CallerIds : d < c => extractors[d].pc # "idle"
    /\ extractors' = [extractors EXCEPT ![c].pc = "acquire"]
    /\ UNCHANGED <<extractConcurrency, EXTRACT_SEM>>

\* Lines 192-219: the permit is taken and the first request is sent.
ExtractAcquire(c) ==
    /\ extractors[c].pc = "acquire"
    /\ EXTRACT_SEM > 0
    /\ EXTRACT_SEM' = EXTRACT_SEM - 1
    /\ extractors' = [extractors EXCEPT ![c].pc = "send", ![c].attempt = 1]
    /\ UNCHANGED extractConcurrency

\* Line 250.
Retryable(r) == r \in {"429", "429ra", "500"}

\* Lines 251 and 263: another request is allowed.
MayRetry(r, n) ==
    /\ r = "neterr" \/ Retryable(r)
    /\ n <= EXTRACT_RETRIES + 1

\* Lines 237-272: what the call returns when it returns.
ExtractResult(r) ==
    IF r = "ok" THEN "Ok"
    ELSE IF r \in {"unreadable", "neterr"} THEN "Network"
    ELSE "ServiceUnavailable"

\* Lines 235-272: the request ends; the call sleeps before a retry, or returns and
\* drops _permit.
ExtractRespond(c, r) ==
    /\ extractors[c].pc = "send"
    /\ IF MayRetry(r, extractors[c].attempt)
       THEN /\ extractors' = [extractors EXCEPT
                  ![c].pc = "sleep",
                  ![c].last = r,
                  ![c].slept = Append(@, extractors[c].backoff_ms),
                  ![c].backoff_ms = saturating_mul(@, 2)]
            /\ UNCHANGED EXTRACT_SEM
       ELSE /\ extractors' = [extractors EXCEPT ![c].pc = "done",
                                                ![c].result = ExtractResult(r)]
            /\ EXTRACT_SEM' = EXTRACT_SEM + 1
    /\ UNCHANGED extractConcurrency

\* Lines 218-235: the sleep is over, the next request is sent.
ExtractRetry(c) ==
    /\ extractors[c].pc = "sleep"
    /\ extractors' = [extractors EXCEPT ![c].pc = "send", ![c].attempt = @ + 1,
                                         ![c].last = "none"]
    /\ UNCHANGED <<extractConcurrency, EXTRACT_SEM>>

extract_text_via_service_bytes ==
    \E c \in CallerIds :
        \/ ExtractCall(c)
        \/ ExtractAcquire(c)
        \/ \E r \in Responses : ExtractRespond(c, r)
        \/ ExtractRetry(c)

(***************************************************************************)
(* POST /query                                                             *)
(***************************************************************************)
QueryIds == 1..MaxQueries

IdleQuery == [pc |-> "idle", mode |-> "none", failed |-> FALSE, resp |-> "none"]

QueryInit == queries = [q \in QueryIds |-> IdleQuery]

\* Lines 641-652: mode defaults to "rag"; use_rig_agent is read from the
\* configuration file, and only in mode rag.
QueryBegin(q, mode, use_rig_agent) ==
    /\ queries[q].pc = "idle"
    /\ \A p \in QueryIds : p < q => queries[p].pc # "idle"
    /\ queries' = [queries EXCEPT ![q].mode = mode,
          ![q].pc = IF mode = "rag" /\ use_rig_agent THEN "agent_setup" ELSE "engine"]

\* Lines 744-750: Json(resp.unwrap_or_else(..)), always sent with status 200.
QueryResponse(ok) == IF ok THEN "200 answer" ELSE "200 error: "

\* Lines 653-722: load_config().unwrap(), Client::from_env() and
\* Qdrant::from_url(&url).build().unwrap(). A failure of one of them panics in
\* the handler: the connection is closed and no response is written.
AgentSetup(q, ok) ==
    /\ queries[q].pc = "agent_setup"
    /\ queries' = [queries EXCEPT ![q] =
          IF ok THEN [@ EXCEPT !.pc = "prompt"]
          ELSE [@ EXCEPT !.pc = "done", !.failed = TRUE, !.resp = "aborted"]]

\* Lines 724-736: agent.prompt(&req.query).await, then the response.
AgentPrompt(q, ok) ==
    /\ queries[q].pc = "prompt"
    /\ queries' = [queries EXCEPT ![q].pc = "done", ![q].failed = ~ok,
                                  ![q].resp = QueryResponse(ok)]

\* Lines 737-743: the graph engine or the retrieval engine answers, then the
\* response.
EngineQuery(q, ok) ==
    /\ queries[q].pc = "engine"
    /\ queries' = [queries EXCEPT ![q].pc = "done", ![q].failed = ~ok,
                                  ![q].resp = QueryResponse(ok)]

query ==
    \E q \in QueryIds :
        \/ \E mode \in {"rag", "graph", "hybrid", "lexical"}, use_rig_agent \in BOOLEAN :
              QueryBegin(q, mode, use_rig_agent)
        \/ \E ok \in BOOLEAN : AgentSetup(q, ok)
        \/ \E ok \in BOOLEAN : AgentPrompt(q, ok)
        \/ \E ok \in BOOLEAN : EngineQuery(q, ok)

(***************************************************************************)
(* The retrieval backends and their filters (kb-rag)                       *)
(***************************************************************************)
\* The chunks a backend has indexed: document, tenant, source, tags, created_at.
Chunks ==
    [document_id : {"d1", "d2"}, tenant_id : {"t1", "t2"}, source : {"s1", "s2"},
     tags : {{"x"}, {"y"}}, created_at : {1, 2, 3}]

\* QueryRequest.filters: each recognized key is absent or carries a value.
Filters ==
    [document_id : {None, Some("d1")}, tenant_id : {None, Some("t1")},
     source : {None, Some("s1")}, tags : {None, Some({}), Some({"x"})},
     start_time : {None, Some(2)}, end_time : {None, Some(2)}]

\* memory.rs lines 156-210: document_id, tenant_id, tags, start_time and end_time
\* are tested; the key source is not read.
apply_filters(chunk, f) ==
    /\ IsSome(f.document_id) => chunk.document_id = Unwrap(f.document_id)
    /\ IsSome(f.tenant_id) => chunk.tenant_id = Unwrap(f.tenant_id)
    /\ IsSome(f.tags) => chunk.tags \cap Unwrap(f.tags) # {}
    /\ IsSome(f.start_time) => ~(chunk.created_at < Unwrap(f.start_time))
    /\ IsSome(f.end_time) => ~(chunk.created_at > Unwrap(f.end_time))

\* main.rs lines 1511-1571: the must-conditions handed to Qdrant; an empty tag
\* list adds no condition.
build_qdrant_filter(chunk, f) ==
    /\ IsSome(f.document_id) => chunk.document_id = Unwrap(f.document_id)
    /\ IsSome(f.tenant_id) => chunk.tenant_id = Unwrap(f.tenant_id)
    /\ IsSome(f.source) => chunk.source = Unwrap(f.source)
    /\ (IsSome(f.tags) /\ Unwrap(f.tags) # {}) => chunk.tags \cap Unwrap(f.tags) # {}
    /\ IsSome(f.start_time) => chunk.created_at >= Unwrap(f.start_time)
    /\ IsSome(f.end_time) => chunk.created_at <= Unwrap(f.end_time)

\* What each backend's query lets through. lexical.rs lines 416-461: the lexical
\* engine searches with req.query and req.top_k only; req.filters is not read.
Matches(backend, chunk, f) ==
    IF backend = "memory" THEN apply_filters(chunk, f)
    ELSE IF backend = "qdrant" THEN build_qdrant_filter(chunk, f)
    ELSE TRUE

RetrievalInit == retrieval = [pc |-> "idle", backend |-> "none", filters |-> None,
                              citations |-> {}]

\* RagEngine::query of the backend with the request's filters.
RagQuery ==
    /\ retrieval.pc = "idle"
    /\ \E backend \in {"memory", "lexical", "qdrant"}, f \in Filters :
          retrieval' = [pc |-> "done", backend |-> backend, filters |-> Some(f),
                        citations |-> {c \in Chunks : Matches(backend, c, f)}]

(***************************************************************************)
(* The hybrid engine (kb-rag hybrid.rs)                                    *)
(*                                                                         *)
(* The f32 values of the code are kept as integers: a weight and the       *)
(* threshold in tenths, a backend's score in tenths, a normalized score in *)
(* sixtieths, a fused score in the unit One of its strategy.               *)
(***************************************************************************)
Docs == {"A", "B", "C", "D"}

Min(a, b) == IF a <= b THEN a ELSE b

\* A multiple of RRF_K + rank + 1 for the ranks 0..3.
RRF_SCALE == 61 * 62 * 63 * 32

\* The integer that stands for the fused score 1.0.
One(fusion_strategy) ==
    IF fusion_strategy = "RRF" THEN 10 * RRF_SCALE
    ELSE IF fusion_strategy = "CombSum" THEN 60 ELSE 600

\* Lines 75-88: HybridConfig::default(), with no reranker.
HybridConfigDefault ==
    [vector_weight |-> 6, lexical_weight |-> 3, final_top_k |-> 10,
     score_normalization |-> "MinMax", fusion_strategy |-> "RRF",
     min_score_threshold |-> 1, enable_deduplication |-> TRUE, rerankers |-> <<>>]

\* An engine with its configuration, about to serve a request with this top_k.
NewSearch(config, top_k) ==
    [pc |-> "search", config |-> config, top_k |-> top_k, vector |-> <<>>,
     lexical |-> <<>>, fused |-> <<>>, deduplicated |-> <<>>, chain |-> <<>>,
     reranked |-> <<>>, out |-> <<>>]

\* Lines 132-133: the top_k each backend is asked for.
search_top_k(config, top_k) ==
    (IF IsSome(top_k) THEN Unwrap(top_k) ELSE config.final_top_k) * RETRIEVAL_MULTIPLIER

\* The citation lists a backend can answer with: at most n distinct chunks, best
\* first, scored 1.0, 0.6, 0.2, -0.2 by rank.
ResultLists(n) ==
    UNION {{f \in [1..m -> Docs] : \A i, j \in 1..m : i # j => f[i] # f[j]} : m \in 0..n}

RawScore(rank) == 10 - 4 * rank

\* Lines 141-149 and 155-163: the EngineResult pushed for each citation.
EngineResults(engine_type, list) ==
    [i \in 1..Len(list) |->
        [key |-> list[i], engine_type |-> engine_type, original_rank |-> i - 1,
         score |-> RawScore(i - 1)]]

\* Lines 218-279: normalize_scores, per engine; None and MinMax.
normalized_score(config, results, i) ==
    LET group == {results[j].score :
                    j \in {j \in DOMAIN results :
                             results[j].engine_type = results[i].engine_type}}
        min_score == CHOOSE x \in group : \A y \in group : x <= y
        max_score == CHOOSE x \in group : \A y \in group : x >= y
        range == max_score - min_score
    IN IF config.score_normalization = "None" THEN results[i].score * 6
       ELSE IF range > 0 THEN ((results[i].score - min_score) * 60) \div range
       ELSE 60

\* Lines 288-293: no graph engine is configured.
Weight(config, engine_type) ==
    IF engine_type = "vector" THEN config.vector_weight ELSE config.lexical_weight

\* A fusion whose RRF counts the ranks from 1.
ContributionRankFromOne(config, results, i) ==
    LET weight == Weight(config, results[i].engine_type)
    IN IF config.fusion_strategy = "RRF"
       THEN (weight * RRF_SCALE) \div (RRF_K + results[i].original_rank + 2)
       ELSE normalized_score(config, results, i) * weight

\* Lines 300-313.
Contribution(config, results, i) ==
    LET weight == Weight(config, results[i].engine_type)
    IN CASE config.fusion_strategy = "WeightedSum" ->
                normalized_score(config, results, i) * weight
         [] config.fusion_strategy = "RRF" ->
                (weight * RRF_SCALE) \div (RRF_K + results[i].original_rank + 1)
         [] config.fusion_strategy = "CombSum" ->
                normalized_score(config, results, i)
         [] config.fusion_strategy = "CombMNZ" ->
                normalized_score(config, results, i) * weight

\* Lines 285-316: combined_score of a key after the first n results.
RECURSIVE combined_score(_, _, _, _)
combined_score(config, results, key, n) ==
    IF n = 0 THEN 0
    ELSE combined_score(config, results, key, n - 1)
            + (IF results[n].key = key THEN Contribution(config, results, n) ELSE 0)

\* Lines 324-329: CombMNZ multiplies by engines.len().
FusedScore(config, results, key) ==
    LET score == combined_score(config, results, key, Len(results))
        engines == Cardinality({i \in DOMAIN results : results[i].key = key})
    IN IF config.fusion_strategy = "CombMNZ" THEN score * engines ELSE score

\* Line 335: score >= self.config.min_score_threshold.
MeetsThreshold(config, score) ==
    score * 10 >= config.min_score_threshold * One(config.fusion_strategy)

\* Lines 332-346: the entries are taken out of the HashMap in the order its
\* hasher gives them, filtered, then sorted (stably) by descending score: entries
\* of equal score come out in any order.
fuse_results(config, results) ==
    LET score == [k \in {results[i].key : i \in DOMAIN results} |->
                    FusedScore(config, results, k)]
        kept == {k \in DOMAIN score : MeetsThreshold(config, score[k])}
        n == Cardinality(kept)
        orders == {f \in [1..n -> kept] :
                     \A i, j \in 1..n :
                        i < j => f[i] # f[j] /\ score[f[i]] >= score[f[j]]}
    IN {[i \in 1..n |-> [key |-> f[i], score |-> score[f[i]]]] : f \in orders}

\* Lines 350-357: retain the first citation of each key.
deduplicate_results(results) ==
    LET first == {i \in DOMAIN results :
                    \A j \in 1..(i - 1) : results[j].key # results[i].key}
    IN [k \in 1..Cardinality(first) |->
          results[CHOOSE i \in first : Cardinality({j \in first : j < i}) = k - 1]]

\* results.sort_by(|a, b| b.score.partial_cmp(&a.score)): stable, descending.
SortByScore(results) ==
    LET n == Len(results)
        p == CHOOSE f \in [1..n -> 1..n] :
                \A i, j \in 1..n :
                    i < j => \/ results[f[i]].score > results[f[j]].score
                             \/ /\ results[f[i]].score = results[f[j]].score
                                /\ f[i] < f[j]
    IN [k \in 1..n |-> results[p[k]]]

\* rerank.rs lines 74-92, 356-377 and 401-421: the keyword, semantic and length
\* rerankers multiply each score by a factor of their own (here 2 for the
\* citations in boosted, 1 for the others) and sort.
Rescored(results, boosted) ==
    SortByScore([i \in DOMAIN results |->
                    [results[i] EXCEPT !.score = IF i \in boosted THEN @ * 2 ELSE @]])

\* What the Cohere service can answer for n documents: items in descending
\* relevance, each naming another index; n itself is an index out of range.
CohereResponses(n) ==
    UNION {{f \in [1..m -> 0..n] : \A i, j \in 1..m : i # j => f[i] # f[j]} : m \in 0..n}

\* rerank.rs lines 239-309: the citations named by the response, in its order,
\* with its relevance as their score.
rerank_batch(results, response) ==
    LET named == SelectSeq(response, LAMBDA index : index < Len(results))
    IN [k \in 1..Len(named) |->
          [key |-> results[named[k] + 1].key, score |-> 10 - k]]

\* Reranker::rerank: the lists a successful call can return.
rerank(reranker, results) ==
    IF reranker = "cohere"
    THEN IF results = <<>> THEN {results}
         ELSE {rerank_batch(results, r) : r \in CohereResponses(Len(results))}
    ELSE {Rescored(results, boosted) : boosted \in SUBSET DOMAIN results}

\* Lines 132-180: both backends are queried; with no result at all the search
\* returns an empty list.
HybridSearch ==
    /\ hybrid.pc = "search"
    /\ \E vector, lexical \in
            ResultLists(Min(MaxResults, search_top_k(hybrid.config, hybrid.top_k))) :
          hybrid' = [hybrid EXCEPT !.vector = vector, !.lexical = lexical,
                       !.pc = IF vector = <<>> /\ lexical = <<>> THEN "done" ELSE "fuse"]

\* Lines 182-186: normalize_scores and fuse_results.
HybridFuse ==
    /\ hybrid.pc = "fuse"
    /\ \E fused \in fuse_results(hybrid.config,
                                 EngineResults("vector", hybrid.vector)
                                    \o EngineResults("lexical", hybrid.lexical)) :
          hybrid' = [hybrid EXCEPT !.fused = fused, !.pc = "dedup"]

\* Lines 189-194.
HybridDedup ==
    /\ hybrid.pc = "dedup"
    /\ hybrid' = [hybrid EXCEPT
          !.deduplicated = IF hybrid.config.enable_deduplication
                           THEN deduplicate_results(hybrid.fused) ELSE hybrid.fused,
          !.reranked = IF hybrid.config.enable_deduplication
                       THEN deduplicate_results(hybrid.fused) ELSE hybrid.fused,
          !.chain = hybrid.config.rerankers,
          !.pc = "rerank"]

\* Lines 196-202, and rerank.rs lines 525-538 for a composite: the rerankers are
\* applied one after the other.
HybridRerank ==
    /\ hybrid.pc = "rerank"
    /\ IF hybrid.chain = <<>>
       THEN hybrid' = [hybrid EXCEPT !.pc = "truncate"]
       ELSE \E results \in rerank(Head(hybrid.chain), hybrid.reranked) :
               hybrid' = [hybrid EXCEPT !.reranked = results, !.chain = Tail(@)]

\* Lines 205-206: limited_results.truncate(self.config.final_top_k).
HybridTruncate ==
    /\ hybrid.pc = "truncate"
    /\ hybrid' = [hybrid EXCEPT
          !.out = SubSeq(hybrid.reranked, 1,
                         Min(Len(hybrid.reranked), hybrid.config.final_top_k)),
          !.pc = "done"]

\* Citation lists with repeated keys, in any order of score.
CitationLists ==
    UNION {[1..m -> [key : {"A", "B"}, score : {2, 6, 10}]] : m \in 0..MaxResults}

NewDedup(X) == [pc |-> "call", X |-> X, once |-> <<>>, twice |-> <<>>]

\* hybrid.rs lines 350-357 called on X, then on its own result.
DedupCall ==
    \/ /\ dedup.pc = "call"
       /\ dedup' = [dedup EXCEPT !.once = deduplicate_results(dedup.X), !.pc = "again"]
    \/ /\ dedup.pc = "again"
       /\ dedup' = [dedup EXCEPT !.twice = deduplicate_results(dedup.once),
                                 !.pc = "done"]

perform_hybrid_search ==
    \/ HybridSearch
    \/ HybridFuse
    \/ HybridDedup
    \/ HybridRerank
    \/ HybridTruncate

\* Engines that fuse by rank: equal and unequal weights, no threshold and the
\* default one.
RrfConfigs ==
    {[HybridConfigDefault EXCEPT !.vector_weight = w[1], !.lexical_weight = w[2],
                                 !.min_score_threshold = t] :
        w \in {<<10, 10>>, <<6, 3>>}, t \in {0, 1}}

\* Engines that fuse by score: the three strategies, both normalizations, equal
\* and unequal weights.
FusionConfigs ==
    {[HybridConfigDefault EXCEPT !.vector_weight = w[1], !.lexical_weight = w[2],
                                 !.score_normalization = n, !.fusion_strategy = st] :
        w \in {<<10, 10>>, <<6, 3>>}, n \in {"None", "MinMax"},
        st \in {"WeightedSum", "CombSum", "CombMNZ"}}

\* Engines whose pipeline after the fusion differs: final_top_k and the reranker.
PipelineConfigs ==
    {[HybridConfigDefault EXCEPT !.vector_weight = 10, !.lexical_weight = 10,
                                 !.min_score_threshold = 0, !.final_top_k = k,
                                 !.rerankers = rs] :
        k \in {1, 2},
        rs \in {<<>>, <<"keyword">>, <<"cohere">>, <<"semantic", "length">>,
                <<"keyword", "cohere">>}}

(***************************************************************************)
(* chunk_and_index (apps/api/src/main.rs)                                  *)
(*                                                                         *)
(* A String is the sequence of its characters; the texts are ASCII, so     *)
(* that String::len, which counts bytes, counts characters.                *)
(***************************************************************************)
Chars == {"a", "b", " "}

Texts == UNION {[1..n -> Chars] : n \in 0..MaxText}

ChunkSizes == 1..3

Overlaps == 0..1

\* char::is_whitespace
is_whitespace(c) == c = " "

\* str::split_whitespace: the maximal runs of characters that are not whitespace.
RECURSIVE split_whitespace(_)
split_whitespace(text) ==
    IF text = <<>> THEN <<>>
    ELSE IF is_whitespace(Head(text)) THEN split_whitespace(Tail(text))
    ELSE LET rest == split_whitespace(Tail(text))
         IN  IF Len(text) > 1 /\ ~is_whitespace(text[2])
             THEN <<(<<Head(text)>> \o Head(rest))>> \o Tail(rest)
             ELSE <<(<<Head(text)>>)>> \o rest

\* Lines 1070-1077: the arguments, and chunks and current before the loop.
NewChunker(text, chunk_size, overlap) ==
    [pc |-> "words", text |-> text, chunk_size |-> chunk_size, overlap |-> overlap,
     words |-> split_whitespace(text), current |-> <<>>, chunks |-> <<>>, n |-> 0]

\* Lines 1082-1089: the last `overlap` characters of current.
Keep(current, overlap) ==
    SubSeq(current, Len(current) - Min(overlap, Len(current)) + 1, Len(current))

PushWordNoSpace(current, word) == current \o word

\* Lines 1093-1096: a space when current is not empty, then the word.
PushWord(current, word) ==
    IF current # <<>> THEN current \o <<" ">> \o word ELSE word

\* Lines 1078-1097: one iteration of the loop over the words.
ChunkWord ==
    /\ chunker.pc = "words"
    /\ chunker.words # <<>>
    /\ LET word == Head(chunker.words)
           current == chunker.current
           full == Len(current) + Len(word) + 1 > chunker.chunk_size /\ current # <<>>
           kept == IF ~full THEN current
                   ELSE IF chunker.overlap > 0 THEN Keep(current, chunker.overlap)
                   ELSE <<>>
       IN  chunker' = [chunker EXCEPT !.words = Tail(@),
                                      !.chunks = IF full THEN Append(@, current) ELSE @,
                                      !.current = PushWord(kept, word)]

\* Lines 1098-1106: the last chunk, then every chunk is handed to the engine.
ChunkFinish ==
    /\ chunker.pc = "words"
    /\ chunker.words = <<>>
    /\ LET chunks == IF chunker.current # <<>> THEN Append(chunker.chunks, chunker.current)
                     ELSE chunker.chunks
       IN  chunker' = [chunker EXCEPT !.pc = "done", !.chunks = chunks, !.n = Len(chunks)]

chunk_and_index == ChunkWord \/ ChunkFinish

(***************************************************************************)
(* Admin settings (apps/api/src/main.rs)                                   *)
(***************************************************************************)
\* The names sent to PUT /admin/settings.
SettingKeys ==
    {<<"K", "E", "Y">>, <<"k", "e", "y">>, <<"S", "E", "C", "R", "E", "T">>, <<"U", "R", "L">>}

\* The values sent: the first n letters of a word whose letters all differ.
SettingValues == {SubSeq(<<"t", "u", "v", "w", "x", "y", "z">>, 1, n) : n \in 0..MaxValue}

\* str::contains
Contains(s, sub) == \E i \in 1..(Len(s) - Len(sub) + 1) : SubSeq(s, i, i + Len(sub) - 1) = sub

\* str::to_ascii_uppercase, on the letters of SettingKeys.
to_ascii_uppercase(s) ==
    [i \in 1..Len(s) |-> CASE s[i] = "k" -> "K" [] s[i] = "e" -> "E" [] s[i] = "y" -> "Y"
                           [] OTHER -> s[i]]

\* Lines 50-56.
is_secret_key(name) ==
    LET upper == to_ascii_uppercase(name)
    IN  \/ Contains(upper, <<"K", "E", "Y">>)
        \/ Contains(upper, <<"T", "O", "K", "E", "N">>)
        \/ Contains(upper, <<"S", "E", "C", "R", "E", "T">>)
        \/ Contains(upper, <<"P", "A", "S", "S">>)

\* Line 1710: the test admin_get_settings makes on the name as it is stored.
GetIsSecret(k) ==
    \/ Contains(k, <<"K", "E", "Y">>)
    \/ Contains(k, <<"T", "O", "K", "E", "N">>)
    \/ Contains(k, <<"P", "A", "S", "S">>)

\* Lines 1712-1723 and 1745-1754: format!("****{}", tail), tail the last four characters.
Masked(s) == <<"*", "*", "*", "*">> \o SubSeq(s, Len(s) - Min(4, Len(s)) + 1, Len(s))

NoSettingsRequest == [op |-> "none", obj |-> EmptyMap, settings |-> EmptyMap]

\* Lines 47-48: SETTINGS starts empty; the names are not in the environment at start.
SettingsInit ==
    settings = [SETTINGS |-> EmptyMap, env |-> EmptyMap, put |-> EmptyMap, resp |-> NoSettingsRequest]

\* Lines 1706-1728: the body of the answer, every stored value masked again when its
\* name passes the test of line 1710.
SettingsView(map) ==
    [k \in DOMAIN map |-> IF GetIsSecret(k) THEN Masked(map[k]) ELSE map[k]]

\* Lines 1702-1729.
admin_get_settings(authorized) ==
    settings' = [settings EXCEPT !.resp =
        IF authorized THEN [op |-> "get", obj |-> EmptyMap, settings |-> SettingsView(settings.SETTINGS)]
        ELSE [op |-> "unauthorized", obj |-> EmptyMap, settings |-> EmptyMap]]

\* Lines 1734-1768: every string member of the body is stored, masked when its name
\* is secret, and exported to the environment; the answer is that of
\* admin_get_settings. `put` keeps the last value sent for each name.
admin_put_settings(authorized, obj) ==
    IF ~authorized
    THEN settings' = [settings EXCEPT !.resp = [op |-> "unauthorized", obj |-> obj, settings |-> EmptyMap]]
    ELSE LET stored == [k \in DOMAIN obj |-> IF is_secret_key(k) THEN Masked(obj[k]) ELSE obj[k]]
             map == [k \in DOMAIN settings.SETTINGS \cup DOMAIN obj |->
                        IF k \in DOMAIN obj THEN stored[k] ELSE settings.SETTINGS[k]]
             env == [k \in DOMAIN settings.env \cup DOMAIN obj |->
                        IF k \in DOMAIN obj THEN obj[k] ELSE settings.env[k]]
             put == [k \in DOMAIN settings.put \cup DOMAIN obj |->
                        IF k \in DOMAIN obj THEN obj[k] ELSE settings.put[k]]
         IN  settings' = [SETTINGS |-> map, env |-> env, put |-> put,
                          resp |-> [op |-> "put", obj |-> obj, settings |-> SettingsView(map)]]

\* The bodies sent to PUT: one name and its value.
SettingsInputs == {[x \in {k} |-> v] : k \in SettingKeys, v \in SettingValues}

admin_settings ==
    \/ \E authorized \in BOOLEAN : admin_get_settings(authorized)
    \/ \E authorized \in BOOLEAN, obj \in SettingsInputs : admin_put_settings(authorized, obj)

(***************************************************************************)
(* KbError (kb-error lib.rs)                                               *)
(***************************************************************************)
\* Lines 13-110: the variants of KbError.
KbErrorKinds ==
    {"NotFound", "InvalidRequest", "Unauthorized", "Authentication", "Validation",
     "Conflict", "QuotaExceeded", "Database", "VectorStore", "SearchEngine", "LlmService",
     "EmbeddingService", "ServiceUnavailable", "Internal", "Configuration",
     "Serialization", "Network", "Timeout", "Concurrency", "QdrantError", "RigError",
     "EmbedError", "VectorStoreError", "AnyhowError"}

\* The variants that carry retry_after: Option<Duration>, and the durations tried (ms).
HasRetryAfter == {"LlmService", "EmbeddingService", "ServiceUnavailable"}

RetryAfters == {None, Some(0), Some(30000)}

KbErrors ==
    {[kind |-> k, retry_after |-> None] : k \in KbErrorKinds \ HasRetryAfter}
        \cup {[kind |-> k, retry_after |-> r] : k \in HasRetryAfter, r \in RetryAfters}

\* Lines 144-168.
severity(e) ==
    CASE e.kind \in {"NotFound", "InvalidRequest"} -> "Low"
      [] e.kind \in {"Unauthorized", "Authentication", "Validation", "Conflict",
                     "QuotaExceeded"} -> "Medium"
      [] e.kind \in {"Database", "VectorStore", "SearchEngine"} -> "High"
      [] e.kind \in {"LlmService", "EmbeddingService"} -> "Medium"
      [] e.kind \in {"ServiceUnavailable", "Network", "Timeout"} -> "Medium"
      [] e.kind \in {"Internal", "Configuration"} -> "Critical"
      [] OTHER -> "High"

\* Lines 171-180.
is_retryable(e) ==
    CASE e.kind = "ServiceUnavailable" -> IsSome(e.retry_after)
      [] e.kind \in {"Network", "Timeout"} -> TRUE
      [] e.kind \in {"LlmService", "EmbeddingService"} -> IsSome(e.retry_after)
      [] e.kind = "Concurrency" -> TRUE
      [] OTHER -> FALSE

\* Lines 183-193, in milliseconds.
retry_after(e) ==
    CASE e.kind \in HasRetryAfter -> e.retry_after
      [] e.kind = "Network" -> Some(500)
      [] e.kind = "Timeout" -> Some(1000)
      [] e.kind = "Concurrency" -> Some(100)
      [] OTHER -> None

\* Lines 244-257.
to_http_status(e) ==
    CASE e.kind = "NotFound" -> 404
      [] e.kind \in {"InvalidRequest", "Validation"} -> 400
      [] e.kind \in {"Unauthorized", "Authentication"} -> 401
      [] e.kind = "Conflict" -> 409
      [] e.kind = "QuotaExceeded" -> 429
      [] e.kind = "ServiceUnavailable" -> 503
      [] e.kind = "Timeout" -> 408
      [] OTHER -> 500

NewKbError(e) ==
    [error |-> e, called |-> "none", severity |-> "none", retryable |-> FALSE,
     retry_after |-> None, status |-> 0]

\* One of the four methods is called on the error.
KbErrorCall ==
    /\ kberr.called = "none"
    /\ \E method \in {"severity", "is_retryable", "retry_after", "to_http_status"} :
          kberr' = [kberr EXCEPT
              !.called = method,
              !.severity = IF method = "severity" THEN severity(kberr.error) ELSE @,
              !.retryable = IF method = "is_retryable" THEN is_retryable(kberr.error) ELSE @,
              !.retry_after = IF method = "retry_after" THEN retry_after(kberr.error) ELSE @,
              !.status = IF method = "to_http_status" THEN to_http_status(kberr.error) ELSE @]

(***************************************************************************)
(* The lexical engine (kb-rag lexical.rs)                                 *)
(*                                                                         *)
(* A text is the sequence of its characters. A score is an integer in the  *)
(* unit 1 / (10 * 1000 * ScoreDen): the weights are in tenths, ln in        *)
(* thousandths, and ScoreDen is a multiple of every number of query tokens. *)
(***************************************************************************)
\* The texts indexed: "Go ml", "py ml", "c is.py", and "ml" MAX_QUERY_TERMS
\* times followed by "go".
LongText ==
    [i \in 1..(3 * MAX_QUERY_TERMS + 2) |->
        IF i > 3 * MAX_QUERY_TERMS THEN (IF i = 3 * MAX_QUERY_TERMS + 1 THEN "g" ELSE "o")
        ELSE IF i % 3 = 1 THEN "m" ELSE IF i % 3 = 2 THEN "l" ELSE " "]

ChunkTexts ==
    {<<"G", "o", " ", "m", "l">>, <<"p", "y", " ", "m", "l">>,
     <<"c", " ", "i", "s", ".", "p", "y">>, LongText}

\* The queries: "go", "ml", "Go py", "is c", "go.ml".
LexicalQueries ==
    {<<"g", "o">>, <<"m", "l">>, <<"G", "o", " ", "p", "y">>, <<"i", "s", " ", "c">>,
     <<"g", "o", ".", "m", "l">>}

\* Lines 37-56: two of the stop words of LexicalConfig::default.
StopWords == {<<"i", "s">>, <<"a">>}

\* str::to_lowercase, on the letters of the texts.
to_lowercase(text) == [i \in 1..Len(text) |-> IF text[i] = "G" THEN "g" ELSE text[i]]

\* Lines 244-251: c.is_whitespace() || c.is_ascii_punctuation() || chinese_punct.contains(&c)
IsSeparator(c) == c \in {" ", "."}

\* str::split with a predicate: the pieces between separators, in order. The empty
\* pieces, which the length test of line 255 drops, are left out here.
Split(text) ==
    LET starts == {i \in DOMAIN text :
                     ~IsSeparator(text[i]) /\ (i = 1 \/ IsSeparator(text[i - 1]))}
        start == [k \in 1..Cardinality(starts) |->
                    CHOOSE i \in starts : Cardinality({j \in starts : j < i}) = k - 1]
        end == [i \in starts |->
                  CHOOSE j \in i..Len(text) :
                      /\ \A m \in i..j : ~IsSeparator(text[m])
                      /\ (j = Len(text) \/ IsSeparator(text[j + 1]))]
    IN  [k \in 1..Cardinality(starts) |-> SubSeq(text, start[k], end[start[k]])]

\* Lines 252-262: the words kept by filter_map.
KeptWords(text) ==
    SelectSeq(Split(to_lowercase(text)),
              LAMBDA word : Len(word) >= MIN_WORD_LENGTH /\ word \notin StopWords)

\* Iterator::take
Take(seq, n) == SubSeq(seq, 1, Min(n, Len(seq)))

\* Lines 233-267, case_sensitive false.
tokenize(text) == Take(KeptWords(text), MAX_QUERY_TERMS)

\* Lines 270-276.
calculate_term_frequency(tokens) ==
    [term \in {tokens[i] : i \in DOMAIN tokens} |->
        Cardinality({i \in DOMAIN tokens : tokens[i] = term})]

\* Lines 69-79: LexicalIndex::default, with no search made yet.
NoSearch == [query |-> <<>>, max_results |-> None, results |-> <<>>]

NewLexicalIndex ==
    [document_term_freq |-> EmptyMap, inverted_index |-> EmptyMap, documents |-> EmptyMap,
     total_documents |-> 0, searched |-> FALSE, search |-> NoSearch]

LexicalInit == lexidx = NewLexicalIndex

\* Lines 114-161: a text of one chunk is indexed under a chunk id of its own.
index_document(index, chunk_id, text) ==
    LET tokens == tokenize(text)
        term_freq == calculate_term_frequency(tokens)
        terms == DOMAIN index.inverted_index \cup DOMAIN term_freq
        documents == Insert(index.documents, chunk_id, text)
    IN  [index EXCEPT
            !.inverted_index =
                [term \in terms |->
                    (IF term \in DOMAIN index.inverted_index THEN index.inverted_index[term]
                     ELSE {})
                    \cup (IF term \in DOMAIN term_freq THEN {chunk_id} ELSE {})],
            !.documents = documents,
            !.document_term_freq = Insert(index.document_term_freq, chunk_id, term_freq),
            !.total_documents = Cardinality(DOMAIN documents)]

\* ln(n / d) in thousandths, rounded, for 1 <= d <= n <= MaxChunks + 1.
LnMilli(n, d) ==
    CASE n = d -> 0
      [] n = 2 * d -> 693
      [] n = 3 * d -> 1099
      [] n = 4 * d -> 1386
      [] 2 * n = 3 * d -> 405
      [] 3 * n = 4 * d -> 288
      [] 3 * n = 5 * d -> 511
      [] 2 * n = 5 * d -> 916
      [] 4 * n = 5 * d -> 223
      [] n = 5 * d -> 1609

ScoreDen == 12

\* Lines 279-314.
RECURSIVE tfidf_sum(_, _, _, _)
tfidf_sum(index, query_tokens, chunk_id, n) ==
    IF n = 0 THEN 0
    ELSE LET query_term == query_tokens[n]
             doc_term_freq == index.document_term_freq[chunk_id]
         IN  tfidf_sum(index, query_tokens, chunk_id, n - 1)
             + IF query_term \in DOMAIN doc_term_freq
               THEN doc_term_freq[query_term]
                    * LnMilli(index.total_documents,
                              Cardinality(index.inverted_index[query_term]))
                    * TFIDF_WEIGHT * ScoreDen
               ELSE 0

\* Lines 319-335.
find_matched_terms(index, query_tokens, chunk_id) ==
    IF chunk_id \in DOMAIN index.document_term_freq
    THEN SelectSeq(query_tokens, LAMBDA term : term \in DOMAIN index.document_term_freq[chunk_id])
    ELSE <<>>

calculate_score(index, query_tokens, chunk_id) ==
    IF chunk_id \in DOMAIN index.document_term_freq
    THEN LET matched_terms == Len(find_matched_terms(index, query_tokens, chunk_id))
         IN  tfidf_sum(index, query_tokens, chunk_id, Len(query_tokens))
             + IF matched_terms > 0
               THEN (matched_terms * KEYWORD_WEIGHT * 1000 * ScoreDen) \div Len(query_tokens)
               ELSE 0
    ELSE 0

\* Lines 166-230: the results a search can return. The candidates come out of a
\* HashSet in the order of its hasher and are sorted (stably) by descending score,
\* so results of equal score come in any order; then the list is truncated.
search(index, q, max_results) ==
    LET query_tokens == tokenize(q)
        candidates == UNION {index.inverted_index[t] :
                               t \in {query_tokens[i] : i \in DOMAIN query_tokens}
                                     \cap DOMAIN index.inverted_index}
        score == [c \in candidates |-> calculate_score(index, query_tokens, c)]
        kept == {c \in candidates : c \in DOMAIN index.documents /\ score[c] > 0}
        n == Cardinality(kept)
        orders == {f \in [1..n -> kept] :
                     \A i, j \in 1..n : i < j => f[i] # f[j] /\ score[f[i]] >= score[f[j]]}
    IN  {Take([i \in 1..n |->
                  [chunk_id |-> f[i], score |-> score[f[i]],
                   matched_terms |-> find_matched_terms(index, query_tokens, f[i])]],
              IF IsSome(max_results) THEN Unwrap(max_results) ELSE 10) : f \in orders}

\* add_document_text on a text that makes one chunk.
LexicalIndexDocument ==
    /\ lexidx.total_documents < MaxChunks
    /\ \E text \in ChunkTexts :
          lexidx' = [index_document(lexidx, lexidx.total_documents + 1, text)
                         EXCEPT !.searched = FALSE, !.search = NoSearch]

LexicalSearch ==
    \E q \in LexicalQueries, max_results \in {None, Some(1)} :
        \E results \in search(lexidx, q, max_results) :
            lexidx' = [lexidx EXCEPT
                           !.searched = TRUE,
                           !.search = [query |-> q, max_results |-> max_results,
                                       results |-> results]]

LexicalNext == LexicalIndexDocument \/ LexicalSearch

(***************************************************************************)
(* The locks of the job tables (apps/api/src/main.rs)                      *)
(*                                                                         *)
(* JOBS, JOB_QUEUE and IDEMPOTENCY are tokio RwLocks. Each task is the list *)
(* of the guards it takes and drops, in the order of its code: a guard     *)
(* bound by `let` lives to the end of its block, a guard made in the head  *)
(* of an `if let` lives to the end of the `if let`, and a guard made in an *)
(* argument lives to the end of the statement.                             *)
(***************************************************************************)
LockTasks == {"job_runner", "admin_jobs_create", "admin_jobs_get"}

Acquire(lock, mode) == [op |-> "acquire", lock |-> lock, mode |-> mode]

Release(lock) == [op |-> "release", lock |-> lock, mode |-> "none"]

\* A guard that is dropped at the end of its own statement.
Temporary(lock, mode) == <<Acquire(lock, mode), Release(lock)>>

\* JOB_STORE.save_all(&*JOBS.read().await, &*JOB_QUEUE.read().await,
\*                    &*IDEMPOTENCY.read().await)
SaveAllGuards ==
    <<Acquire("JOBS", "read"), Acquire("JOB_QUEUE", "read"), Acquire("IDEMPOTENCY", "read"),
      Release("IDEMPOTENCY"), Release("JOB_QUEUE"), Release("JOBS")>>

\* Lines 2034-2075, with and without an idempotency key.
CreateGuards(keyed) ==
    (IF keyed THEN Temporary("IDEMPOTENCY", "read") ELSE <<>>)
        \o <<Acquire("JOBS", "write"), Acquire("JOB_QUEUE", "write")>>
        \o (IF keyed THEN Temporary("IDEMPOTENCY", "write") ELSE <<>>)
        \o Temporary("IDEMPOTENCY", "read")
        \o Temporary("IDEMPOTENCY", "read")
        \o <<Release("JOB_QUEUE"), Release("JOBS")>>

\* Lines 2084-2086 (and 2013).
GetGuards == Temporary("JOBS", "read")

\* Lines 2155-2189: the restoration when the store is not empty, then the reset.
RestoreGuards(stored) ==
    (IF stored
     THEN <<Acquire("JOBS", "write"), Acquire("JOB_QUEUE", "write"),
            Acquire("IDEMPOTENCY", "write"),
            Release("IDEMPOTENCY"), Release("JOB_QUEUE"), Release("JOBS")>>
     ELSE <<>>)
        \o <<Acquire("JOBS", "write"), Acquire("JOB_QUEUE", "read"),
             Acquire("IDEMPOTENCY", "read"),
             Release("IDEMPOTENCY"), Release("JOB_QUEUE"), Release("JOBS")>>

\* Lines 2192-2210, 2257-2261 and 2278: pop, mark running and persist, the head of
\* the first attempt, the read of the job.
PickGuards ==
    Temporary("JOB_QUEUE", "write") \o Temporary("JOBS", "write") \o SaveAllGuards
        \o Temporary("JOBS", "read") \o Temporary("JOBS", "write")
        \o Temporary("JOBS", "read")

\* Lines 2344-2362 and 2377-2395: the block that records progress and resume.
CheckpointGuards == <<Acquire("JOBS", "write")>> \o SaveAllGuards \o <<Release("JOBS")>>

\* Lines 2211-2225.
ErrGuards == Temporary("JOBS", "write") \o SaveAllGuards \o Temporary("JOBS", "read")

\* Lines 2226-2238.
OkGuards ==
    <<Acquire("JOBS", "write")>> \o SaveAllGuards \o Temporary("JOBS", "read")
        \o <<Release("JOBS")>>

\* job_runner up to the end of its first job: a job that fails, a job that
\* succeeds, and a pdf_glob job of one file with EXTRACT_URL set.
RunnerGuards(stored, outcome) ==
    RestoreGuards(stored) \o PickGuards
        \o CASE outcome = "err" -> ErrGuards
             [] outcome = "ok" -> OkGuards
             [] outcome = "pdf" -> CheckpointGuards \o CheckpointGuards \o OkGuards

LockPrograms ==
    {[t \in LockTasks |->
        CASE t = "job_runner" -> RunnerGuards(stored, outcome)
          [] t = "admin_jobs_create" -> CreateGuards(keyed)
          [] t = "admin_jobs_get" -> GetGuards] :
     stored \in BOOLEAN, outcome \in {"err", "ok", "pdf"}, keyed \in BOOLEAN}

NewLocking(prog) ==
    [prog |-> prog, pc |-> [t \in LockTasks |-> 1], held |-> [t \in LockTasks |-> <<>>]]

\* The statement a task is at.
NextOp(t) ==
    IF locking.pc[t] <= Len(locking.prog[t]) THEN locking.prog[t][locking.pc[t]]
    ELSE [op |-> "end", lock |-> "none", mode |-> "none"]

\* The tasks whose guards keep a request for the lock from being granted: any guard
\* for a write, a write guard for a read; the requester's own guards count.
Holders(lock, mode) ==
    {u \in LockTasks :
        \E i \in DOMAIN locking.held[u] :
            /\ locking.held[u][i].lock = lock
            /\ (mode = "write" \/ locking.held[u][i].mode = "write")}

\* RwLock::read().await and RwLock::write().await return.
LockAcquire(t) ==
    /\ NextOp(t).op = "acquire"
    /\ Holders(NextOp(t).lock, NextOp(t).mode) = {}
    /\ locking' = [locking EXCEPT
                      !.pc[t] = @ + 1,
                      !.held[t] = Append(@, [lock |-> NextOp(t).lock, mode |-> NextOp(t).mode])]

\* The last guard taken on the lock is dropped.
LockRelease(t) ==
    /\ NextOp(t).op = "release"
    /\ LET held == locking.held[t]
           i == CHOOSE k \in DOMAIN held :
                   /\ held[k].lock = NextOp(t).lock
                   /\ \A m \in DOMAIN held : m > k => held[m].lock # NextOp(t).lock
       IN  locking' = [locking EXCEPT
                          !.pc[t] = @ + 1,
                          !.held[t] = SubSeq(held, 1, i - 1) \o SubSeq(held, i + 1, Len(held))]

LockNext == \E t \in LockTasks : LockAcquire(t) \/ LockRelease(t)

(***************************************************************************)
(* Specifications                                                          *)
(***************************************************************************)
GhostInit == seenAttempts = [id \in JobIds |-> 0]

\* Each part of the program left at its initial state, with one configuration.
JobIdle == JobInit /\ ~pgOn /\ ~extractUrl /\ GhostInit

SessIdle == SessInit /\ ~redisOn

ExtractIdle == ExtractInit /\ extractConcurrency = 0

HybridIdle == hybrid = NewSearch(HybridConfigDefault, None)

DedupIdle == dedup = NewDedup(<<>>)

ChunkerIdle == chunker = NewChunker(<<>>, 1, 0)

KbErrorIdle == kberr = NewKbError([kind |-> "Internal", retry_after |-> None])

LockIdle == locking = NewLocking([t \in LockTasks |-> <<>>])

LibIdle == ChunkerIdle /\ SettingsInit /\ KbErrorIdle /\ LexicalInit /\ LockIdle

RagIdle == QueryInit /\ RetrievalInit /\ HybridIdle /\ DedupIdle /\ LibIdle

Init == JobInit /\ GhostInit /\ SessIdle /\ ExtractIdle /\ RagIdle

\* The job engine.
Next == JobNext /\ UNCHANGED <<seenAttempts, sessVars, extractVars, ragVars>>

Spec == Init /\ [][Next]_vars

\* The sessions.
SessionInit == JobIdle /\ SessInit /\ ExtractIdle /\ RagIdle

SessionNext == SessNext /\ UNCHANGED <<jobVars, seenAttempts, extractVars, ragVars>>

SessionSpec == SessionInit /\ [][SessionNext]_vars

\* The tool_result handlers beside one session/stream task, which is what leaves
\* a pending tool in the store.
ToolResultNext ==
    \/ session_start
    \/ session_stream_task(1)
    \/ session_tool_result
    \/ \E sid \in SessionIds : SessionExpire(sid)

ToolResultSpec ==
    SessionInit /\ [][ToolResultNext /\ UNCHANGED <<jobVars, seenAttempts, extractVars, ragVars>>]_vars

\* One stream and its client.
StreamInit == JobIdle /\ SessIdle /\ ExtractIdle /\ RagIdle

StreamSpec ==
    StreamInit /\ [][StreamNext /\ UNCHANGED <<jobVars, seenAttempts, extractVars, ragVars>>]_vars

\* The runtime keeps polling the spawned job_runner task, and every attempt ends.
FairSpec ==
    Spec /\ WF_vars(job_runner /\ UNCHANGED <<seenAttempts, sessVars, extractVars, ragVars>>)

\* The job engine, with the attempts each job has shown recorded.
Max(a, b) == IF a >= b THEN a ELSE b

ShownAttempts(jobs, id) == IF id \in DOMAIN jobs THEN jobs[id].attempts ELSE 0

AttemptNext ==
    /\ JobNext
    /\ seenAttempts' =
          [id \in JobIds |-> Max(seenAttempts[id], ShownAttempts(JOBS', id))]
    /\ UNCHANGED <<sessVars, extractVars, ragVars>>

AttemptSpec == Init /\ [][AttemptNext]_vars

\* The callers of the extraction client.
ExtractSpecInit == JobIdle /\ SessIdle /\ ExtractInit /\ RagIdle

ExtractNext ==
    extract_text_via_service_bytes /\ UNCHANGED <<jobVars, seenAttempts, sessVars, ragVars>>

ExtractSpec == ExtractSpecInit /\ [][ExtractNext]_vars

\* The query handler.
QuerySpecInit == JobIdle /\ SessIdle /\ ExtractIdle /\ RagIdle

QuerySpec ==
    QuerySpecInit
        /\ [][query /\ UNCHANGED <<jobVars, seenAttempts, sessVars, extractVars, libVars,
                                   retrieval, hybrid, dedup>>]_vars

\* The hybrid engine fusing by rank.
RrfSpecInit ==
    /\ JobIdle /\ SessIdle /\ ExtractIdle /\ QueryInit /\ RetrievalInit /\ DedupIdle /\ LibIdle
    /\ hybrid \in {NewSearch(config, Some(2)) : config \in RrfConfigs}

RrfSpec ==
    RrfSpecInit
        /\ [][perform_hybrid_search
                /\ UNCHANGED <<jobVars, seenAttempts, sessVars, extractVars, libVars,
                               queries, retrieval, dedup>>]_vars

\* The hybrid engine fusing by score.
FusionSpecInit ==
    /\ JobIdle /\ SessIdle /\ ExtractIdle /\ QueryInit /\ RetrievalInit /\ DedupIdle /\ LibIdle
    /\ hybrid \in {NewSearch(config, Some(2)) : config \in FusionConfigs}

FusionSpec ==
    FusionSpecInit
        /\ [][perform_hybrid_search
                /\ UNCHANGED <<jobVars, seenAttempts, sessVars, extractVars, libVars,
                               queries, retrieval, dedup>>]_vars

\* The hybrid engine's steps after the fusion.
PipelineSpecInit ==
    /\ JobIdle /\ SessIdle /\ ExtractIdle /\ QueryInit /\ RetrievalInit /\ DedupIdle /\ LibIdle
    /\ hybrid \in {NewSearch(config, top_k) :
                      config \in PipelineConfigs, top_k \in {Some(1)}}

PipelineSpec ==
    PipelineSpecInit
        /\ [][perform_hybrid_search
                /\ UNCHANGED <<jobVars, seenAttempts, sessVars, extractVars, libVars,
                               queries, retrieval, dedup>>]_vars

\* deduplicate_results on its own, as its test calls it.
DedupSpecInit ==
    /\ JobIdle /\ SessIdle /\ ExtractIdle /\ QueryInit /\ RetrievalInit /\ HybridIdle /\ LibIdle
    /\ dedup \in {NewDedup(X) : X \in CitationLists}

DedupSpec ==
    DedupSpecInit
        /\ [][DedupCall
                /\ UNCHANGED <<jobVars, seenAttempts, sessVars, extractVars, libVars,
                               queries, retrieval, hybrid>>]_vars

\* One query of each retrieval backend.
RetrievalSpecInit == JobIdle /\ SessIdle /\ ExtractIdle /\ RagIdle

RetrievalSpec ==
    RetrievalSpecInit
        /\ [][RagQuery /\ UNCHANGED <<jobVars, seenAttempts, sessVars, extractVars, libVars,
                                      queries, hybrid, dedup>>]_vars

\* One call of chunk_and_index.
ChunkSpecInit ==
    /\ JobIdle /\ SessIdle /\ ExtractIdle /\ QueryInit /\ RetrievalInit /\ HybridIdle /\ DedupIdle
    /\ SettingsInit /\ KbErrorIdle /\ LexicalInit /\ LockIdle
    /\ chunker \in {NewChunker(text, chunk_size, overlap) :
                       text \in Texts, chunk_size \in ChunkSizes, overlap \in Overlaps}

ChunkSpec ==
    ChunkSpecInit
        /\ [][chunk_and_index
                /\ UNCHANGED <<jobVars, seenAttempts, sessVars, extractVars,
                               queries, retrieval, hybrid, dedup, settings, kberr, lexidx, locking>>]_vars

\* The admin settings handlers.
SettingsSpecInit == JobIdle /\ SessIdle /\ ExtractIdle /\ RagIdle

SettingsSpec ==
    SettingsSpecInit
        /\ [][admin_settings
                /\ UNCHANGED <<jobVars, seenAttempts, sessVars, extractVars,
                               queries, retrieval, hybrid, dedup, chunker, kberr, lexidx, locking>>]_vars

\* The methods of KbError, each on every kind of error.
KbErrorSpecInit ==
    /\ JobIdle /\ SessIdle /\ ExtractIdle /\ QueryInit /\ RetrievalInit /\ HybridIdle /\ DedupIdle
    /\ ChunkerIdle /\ SettingsInit /\ LexicalInit /\ LockIdle
    /\ kberr \in {NewKbError(e) : e \in KbErrors}

KbErrorSpec ==
    KbErrorSpecInit
        /\ [][KbErrorCall
                /\ UNCHANGED <<jobVars, seenAttempts, sessVars, extractVars,
                               queries, retrieval, hybrid, dedup, chunker, settings, lexidx, locking>>]_vars

\* The lexical index: insertions and searches.
LexicalSpecInit == JobIdle /\ SessIdle /\ ExtractIdle /\ RagIdle

LexicalSpec ==
    LexicalSpecInit
        /\ [][LexicalNext
                /\ UNCHANGED <<jobVars, seenAttempts, sessVars, extractVars,
                               queries, retrieval, hybrid, dedup, chunker, settings, kberr, locking>>]_vars

\* The tasks that lock the job tables, guard by guard.
LockSpecInit ==
    /\ JobIdle /\ SessIdle /\ ExtractIdle /\ QueryInit /\ RetrievalInit /\ HybridIdle /\ DedupIdle
    /\ ChunkerIdle /\ SettingsInit /\ KbErrorIdle /\ LexicalInit
    /\ locking \in {NewLocking(prog) : prog \in LockPrograms}

LockSpec ==
    LockSpecInit
        /\ [][LockNext
                /\ UNCHANGED <<jobVars, seenAttempts, sessVars, extractVars,
                               queries, retrieval, hybrid, dedup, chunker, settings, kberr,
                               lexidx>>]_vars

(***************************************************************************)
(* Properties of the job engine.                                           *)
(***************************************************************************)
RestorePcs == {"load", "assign", "reset"}

\* The runner holds the job it popped from WorkerMark on, until it is back at poll.
HoldingPcs == {"attempt", "once", "native", "succeed", "fail", "blocked"}

StatusOf(jobs, id) == jobs[id].status

AllowedStep(a, b) ==
    <<a, b>> \in {<<"pending", "running">>, <<"running", "done">>, <<"running", "error">>}

\* C1: outside the startup restoration (RestoreAssign, RestoreReset) every change of
\* the status of a job is pending -> running, running -> done or running -> error.
C1_StatusTransitions ==
    [][pc \notin RestorePcs =>
          \A id \in DOMAIN JOBS \cap DOMAIN JOBS' :
              StatusOf(JOBS, id) # StatusOf(JOBS', id)
                  => AllowedStep(StatusOf(JOBS, id), StatusOf(JOBS', id))]_vars

\* C1 witness: one job has ended in error and another one in done.
C1_Witness ==
    /\ \E id \in DOMAIN JOBS : JOBS[id].status = "error"
    /\ \E id \in DOMAIN JOBS : JOBS[id].status = "done"

NoRunning(jobs) == \A id \in DOMAIN jobs : jobs[id].status # "running"

\* C2: once the startup restoration has finished and before the runner marks the
\* next job, no job is running, whichever store the state was read from.
C2_NoRunningAfterRestore == pc \in {"poll", "mark"} => NoRunning(JOBS)

\* C2 witness: after a restart the runner is polling, and a job that Postgres still
\* records as running is pending in memory and in sled.
C2_Witness ==
    /\ crashes > 0
    /\ pc = "poll"
    /\ \E id \in DOMAIN JOBS \cap DOMAIN PG.jobs \cap DOMAIN JOB_STORE.jobs :
          /\ PG.jobs[id].status = "running"
          /\ JOBS[id].status = "pending"
          /\ JOB_STORE.jobs[id].status = "pending"

Terminal(jobs, id) == id \in DOMAIN jobs /\ jobs[id].status \in {"done", "error"}

\* C3: a job that is pending once the restoration after a kill has finished (it was
\* pending or running at the kill) eventually reaches done or error.
C3_RecoveryCompletes ==
    \A id \in JobIds :
        (crashes > 0 /\ pc = "poll" /\ id \in DOMAIN JOBS /\ JOBS[id].status = "pending")
            ~> Terminal(JOBS, id)

PdfFinished(id) ==
    /\ id \in DOMAIN JOBS
    /\ JOBS[id].status = "done"
    /\ IsSome(JOBS[id].progress)
    /\ IsSome(JOBS[id].resume)
    /\ Unwrap(JOBS[id].progress).completed = Len(Unwrap(JOBS[id].resume).paths)

\* C4: with the extractor configured (the branch that records resume points), a
\* pdf_glob job that the runner runs after a restart finishes done with
\* progress.completed equal to the number of paths recorded for it.
C4_PdfGlobResumes ==
    \A id \in JobIds :
        (extractUrl /\ crashes > 0 /\ pc = "once" /\ cur = id /\ id \in DOMAIN JOBS
            /\ JOBS[id].kind = "pdf_glob") ~> PdfFinished(id)

Persisted(id, status, message) ==
    /\ id \in DOMAIN JOB_STORE.jobs
    /\ JOB_STORE.jobs[id].status = status
    /\ message # None => JOB_STORE.jobs[id].message = message

\* C5: unless the process is killed first, a job whose run_job_with_retries has
\* returned Ok ends persisted as done, one whose retries are used up ends persisted
\* as error with the last error text, and the runner is polling again.
C5_OutcomePersisted ==
    \A id \in JobIds, c \in 0..MaxCrashes, e \in Errors :
        /\ (pc = "succeed" /\ cur = id /\ crashes = c)
              ~> (crashes > c \/ (pc = "poll" /\ Persisted(id, "done", None)))
        /\ (pc = "fail" /\ cur = id /\ crashes = c /\ lastErr = Some(e))
              ~> (crashes > c \/ (pc = "poll" /\ Persisted(id, "error", Some(e))))

\* C6: within one run of the process, once a create with key k has answered with a
\* new job, no later request with key k gets past the idempotency check, and every
\* idempotent answer for k carries the id of that first job, whose payload is kept.
C6_SecondEnqueueReturnsFirst ==
    [][crashes = 0 =>
          \A k \in DOMAIN acked :
              /\ \A r \in inflight' \ inflight : r.idempotency_key # Some(k)
              /\ (resp' # resp /\ resp'.idempotent /\ resp'.key = Some(k))
                    => /\ resp'.job_id = acked[k].id
                       /\ JOBS' = JOBS
                       /\ JOB_QUEUE' = JOB_QUEUE
                       /\ JOBS[acked[k].id].payload = acked[k].payload]_vars

\* C7: no two jobs of the job table carry the same idempotency key.
C7_UniqueIdempotencyKey ==
    \A i, j \in DOMAIN JOBS :
        (i # j /\ IsSome(JOBS[i].idempotency_key))
            => JOBS[i].idempotency_key # JOBS[j].idempotency_key

\* C8: every id in the queue is the id of a job of the job table that is pending.
C8_QueueSubsetPending ==
    \A i \in 1..Len(JOB_QUEUE) :
        JOB_QUEUE[i] \in DOMAIN JOBS /\ JOBS[JOB_QUEUE[i]].status = "pending"

\* C9: after the startup restoration, a job that is running is the one job the
\* single job_runner task has popped and is working on.
C9_RunningHeldByRunner ==
    pc \notin RestorePcs =>
        \A id \in DOMAIN JOBS :
            JOBS[id].status = "running" => (cur = id /\ pc \in HoldingPcs)

\* C9 witness: after a restart a job is running, held by the runner.
C9_Witness ==
    /\ crashes > 0
    /\ pc = "once"
    /\ cur \in DOMAIN JOBS
    /\ JOBS[cur].status = "running"

(***************************************************************************)
(* Properties of the sessions.                                             *)
(***************************************************************************)
\* C10: a stream task that has requested a completion and is forwarding its events
\* read the session with pending_tool = None.
C10_StreamOnlyWithoutPendingTool ==
    \A t \in StreamIds :
        streams[t].pc = "streaming" => streams[t].st.pending_tool = None

Active(t) == streams[t].pc \in {"streaming", "tc_load", "tc_save", "tc_send"}

\* C11: no two stream tasks are at the same time between requesting a completion
\* and leaving their loop for the same session.
C11_OneStreamPerSession ==
    \A t, u \in StreamIds :
        (t # u /\ Active(t) /\ Active(u)) => streams[t].sid # streams[u].sid

\* C12: a session/tool_result that read an existing session with no pending tool
\* answers no_pending_tool and writes nothing to the session store.
C12_NoPendingToolRejected ==
    [][\A r \in ToolResultIds :
          (/\ toolResults[r].pc = "loaded"
           /\ toolResults'[r].pc = "done"
           /\ IsSome(toolResults[r].st)
           /\ ~IsSome(Unwrap(toolResults[r].st).pending_tool))
              => /\ toolResults'[r].status = "no_pending_tool"
                 /\ SESSIONS' = SESSIONS]_vars

\* C12 witness: a tool result for a stored session has been rejected.
C12_Witness ==
    \E r \in ToolResultIds :
        /\ toolResults[r].status = "no_pending_tool"
        /\ toolResults[r].sid \in DOMAIN SESSIONS
        /\ ~IsSome(SESSIONS[toolResults[r].sid].pending_tool)

HasEvent(t, evs) == \E i \in 1..Len(streams[t].events) : streams[t].events[i] \in evs

\* C13: the step of a stream task between receiving a ToolCall and forwarding the
\* tool_call event leaves the stored session equal to the one stored before plus
\* the assistant tool-call entry and the pending tool, and a stream that has
\* forwarded tool_call forwards nothing more.
C13_ToolCallPersistedThenForwarded ==
    [][\A t \in StreamIds :
          /\ (streams[t].pc = "tc_save" /\ streams'[t].pc = "tc_send")
                => /\ streams[t].sid \in DOMAIN SESSIONS
                   /\ streams[t].sid \in DOMAIN SESSIONS'
                   /\ SESSIONS'[streams[t].sid]
                        = WithToolCall(SESSIONS[streams[t].sid], Unwrap(streams[t].tc))
          /\ (streams[t].kind = "session" /\ HasEvent(t, {"tool_call"}))
                => streams'[t].events = streams[t].events]_vars

\* C14: a stream that has forwarded a final or an error event forwards nothing more.
C14_FinalOrErrorCloses ==
    [][\A t \in StreamIds :
          HasEvent(t, {"final", "error"}) => streams'[t].events = streams[t].events]_vars

\* C15: a streaming task whose send has failed has left its loop.
C15_ExitsOnFailedSend ==
    \A t \in StreamIds : streams[t].failed => streams[t].pc = "done"

\* C16: for one pickup the runner makes at most JOB_MAX_RETRIES + 1 attempts, goes
\* on to another attempt only after a failed one, sleeps JOB_RETRY_BASE_MS * 2^(i-1)
\* before retry i, and gives up with the last error only when attempt
\* JOB_MAX_RETRIES + 1 has failed.
C16_BoundedRetries ==
    [][/\ attempt' <= JOB_MAX_RETRIES + 1
       /\ Len(delays') <= JOB_MAX_RETRIES
       /\ \A i \in 1..Len(delays') : delays'[i] = JOB_RETRY_BASE_MS * (2 ^ (i - 1))
       /\ (pc' = "attempt" /\ crashes' = crashes) => Len(delays') = attempt'
       /\ (pc = "once" /\ pc' = "attempt") => lastErr' # None
       /\ pc = "succeed" => pc' # "attempt"
       /\ pc' = "fail"
            => attempt' = JOB_MAX_RETRIES + 1 /\ Len(delays') = JOB_MAX_RETRIES
                /\ lastErr' # None]_vars

\* C16 witness: the third attempt has failed after sleeps of 500 and 1000 ms.
C16_Witness ==
    /\ pc = "fail"
    /\ attempt = 3
    /\ delays = <<500, 1000>>
    /\ lastErr = Some("e2")

\* C17: the attempts value of a job in the job table is never below a value the
\* table has shown for that job before, restarts included.
C17_AttemptsMonotone ==
    \A id \in DOMAIN JOBS : JOBS[id].attempts >= seenAttempts[id]

\* What a restart reads: Postgres when it is there, else sled.
Reloaded(store, pg) == IF pgOn THEN pg ELSE store

\* C18: after a step that creates a job or changes the status of a job, the record
\* a reload would read for it equals the record in memory.
C18_ReloadMatchesMemory ==
    [][\A id \in DOMAIN JOBS' :
          (\/ id \in DOMAIN JOBS /\ JOBS[id].status # JOBS'[id].status
           \/ id \notin DOMAIN JOBS /\ nextId' = id /\ nextId # id /\ crashes' = crashes)
              => /\ id \in DOMAIN Reloaded(JOB_STORE', PG').jobs
                 /\ Reloaded(JOB_STORE', PG').jobs[id] = JOBS'[id]]_vars

InStore(s, id) ==
    [job |-> id \in DOMAIN s.jobs,
     queue |-> InSeq(s.queue, id),
     idem |-> \E k \in DOMAIN s.idem : s.idem[k] = id]

AllOrNone(s, id) ==
    /\ InStore(s, id).job <=> InStore(s, id).queue
    /\ InStore(s, id).idem => InStore(s, id).job
    /\ (InStore(s, id).job /\ IsSome(s.jobs[id].idempotency_key)) => InStore(s, id).idem

\* C19: a kill leaves every job id that was in none of the three tables a restart
\* reads either in none of them or with its job, its queue entry and, for a keyed
\* job, its idempotency entry.
C19_EnqueueAtomic ==
    [][crashes' > crashes =>
          \A id \in JobIds :
              (LET b == InStore(Reloaded(JOB_STORE, PG), id)
               IN ~b.job /\ ~b.queue /\ ~b.idem)
                  => AllOrNone(Reloaded(JOB_STORE', PG'), id)]_vars

InFlight == Cardinality({c \in CallerIds : extractors[c].pc = "send"})

Pow2(n) == IF n = 0 THEN 1 ELSE IF n = 1 THEN 2 ELSE IF n = 2 THEN 4 ELSE 8

\* C21: a call sends at most EXTRACT_RETRIES + 1 requests, sleeps
\* EXTRACT_RETRY_BASE_MS * 2^(i-1) before retry i, sleeps at most EXTRACT_RETRIES
\* times, and returns Ok, ServiceUnavailable or Network.
C21_RetriesBounded ==
    \A c \in CallerIds :
        /\ extractors[c].attempt <= EXTRACT_RETRIES + 1
        /\ Len(extractors[c].slept) <= EXTRACT_RETRIES
        /\ \A i \in 1..Len(extractors[c].slept) :
              extractors[c].slept[i] = EXTRACT_RETRY_BASE_MS * Pow2(i - 1)
        /\ extractors[c].pc = "done"
              => extractors[c].result \in {"Ok", "ServiceUnavailable", "Network"}

\* C22: the sleep that follows a 429 with Retry-After lasts at least as long as
\* the header asks.
C22_RetryAfterHonoured ==
    \A c \in CallerIds :
        (extractors[c].pc = "sleep" /\ RetryAfterMs(extractors[c].last) > 0)
            => extractors[c].slept[Len(extractors[c].slept)]
                  >= RetryAfterMs(extractors[c].last)

(***************************************************************************)
(* Properties of retrieval.                                                *)
(***************************************************************************)
\* C23: a POST /query that met a backend or agent failure has been answered with
\* status 200 and an answer that begins with "error: ".
C23_FailureAnswered200 ==
    \A q \in QueryIds :
        (queries[q].pc = "done" /\ queries[q].failed) => queries[q].resp = "200 error: "

\* The filter as the request means it.
Satisfies(chunk, f) ==
    /\ IsSome(f.document_id) => chunk.document_id = Unwrap(f.document_id)
    /\ IsSome(f.tenant_id) => chunk.tenant_id = Unwrap(f.tenant_id)
    /\ IsSome(f.source) => chunk.source = Unwrap(f.source)
    /\ IsSome(f.tags) => chunk.tags \cap Unwrap(f.tags) # {}
    /\ IsSome(f.start_time) => chunk.created_at >= Unwrap(f.start_time)
    /\ IsSome(f.end_time) => chunk.created_at <= Unwrap(f.end_time)

\* C24: every citation a backend's query returned satisfies every recognized
\* filter of the request.
C24_CitationsSatisfyFilters ==
    retrieval.pc = "done"
        => \A c \in retrieval.citations : Satisfies(c, Unwrap(retrieval.filters))

KeysOf(results) == [i \in DOMAIN results |-> results[i].key]

Fused == hybrid.pc \in {"dedup", "rerank", "truncate", "done"} /\ hybrid.fused # <<>>

\* C25: the ranking the fusion produced is the ranking it produces with the
\* backends' results fed in the other order.
C25_FusionOrderIndependent ==
    hybrid.pc = "dedup"
        => \A swapped \in fuse_results(hybrid.config,
                                       EngineResults("lexical", hybrid.lexical)
                                          \o EngineResults("vector", hybrid.vector)) :
              KeysOf(swapped) = KeysOf(hybrid.fused)

RrfTerm(weight, list, key) ==
    IF \E i \in DOMAIN list : list[i] = key
    THEN (weight * RRF_SCALE) \div (RRF_K + (CHOOSE i \in DOMAIN list : list[i] = key))
    ELSE 0

RrfScore(key) ==
    RrfTerm(hybrid.config.vector_weight, hybrid.vector, key)
        + RrfTerm(hybrid.config.lexical_weight, hybrid.lexical, key)

Descending(results) ==
    \A i, j \in DOMAIN results : i < j => results[i].score >= results[j].score

Scenario5 ==
    /\ hybrid.pc = "done"
    /\ hybrid.config.fusion_strategy = "RRF"
    /\ hybrid.config.vector_weight = hybrid.config.lexical_weight
    /\ hybrid.vector = <<"A", "B", "C">>
    /\ hybrid.lexical = <<"B", "D", "A">>

TopTwoBA == Len(hybrid.out) >= 2 /\ hybrid.out[1].key = "B" /\ hybrid.out[2].key = "A"

C28_CombMnzIsCombSumTimesCount ==
    (Fused /\ hybrid.config.fusion_strategy = "CombMNZ")
        => LET results == EngineResults("vector", hybrid.vector)
                             \o EngineResults("lexical", hybrid.lexical)
               CombSum == [hybrid.config EXCEPT !.fusion_strategy = "CombSum"]
           IN \A i \in DOMAIN hybrid.fused :
                 hybrid.fused[i].score * One("CombSum")
                    = FusedScore(CombSum, results, hybrid.fused[i].key)
                         * Cardinality({j \in DOMAIN results :
                                          results[j].key = hybrid.fused[i].key})
                         * One("CombMNZ")

\* C29: a finished hybrid search returns at most the request's top_k citations.
C29_AtMostTopK ==
    (hybrid.pc = "done" /\ IsSome(hybrid.top_k)) => Len(hybrid.out) <= Unwrap(hybrid.top_k)

\* C30: a reranker's successful rerank returns the keys it was given, each once.
C30_RerankKeepsMembership ==
    [][(hybrid.pc = "rerank" /\ hybrid.chain # <<>>)
          => /\ {hybrid'.reranked[i].key : i \in DOMAIN hybrid'.reranked}
                   = {hybrid.reranked[i].key : i \in DOMAIN hybrid.reranked}
             /\ Len(hybrid'.reranked) = Len(hybrid.reranked)]_vars

\* A search with the default configuration has finished, and the two backends
\* put the same chunk first.
RankedFirstByBoth ==
    /\ hybrid.pc = "done"
    /\ hybrid.config = HybridConfigDefault
    /\ hybrid.vector # <<>>
    /\ hybrid.lexical # <<>>
    /\ hybrid.vector[1] = hybrid.lexical[1]

\* C40: with the default HybridConfig, the chunk that both backends rank first is
\* in the result of the hybrid search.
C40_DefaultKeepsTopRanked ==
    RankedFirstByBoth => \E i \in DOMAIN hybrid.out : hybrid.out[i].key = hybrid.vector[1]

(***************************************************************************)
(* Properties of ingestion and administration.                             *)
(***************************************************************************)
\* The words of a list of strings, each split at its whitespace, in order.
RECURSIVE Tokens(_)
Tokens(strings) ==
    IF strings = <<>> THEN <<>>
    ELSE split_whitespace(Head(strings)) \o Tokens(Tail(strings))

\* The strings joined by single spaces.
RECURSIVE Join(_)
Join(strings) ==
    IF strings = <<>> THEN <<>>
    ELSE IF Len(strings) = 1 THEN Head(strings)
    ELSE Head(strings) \o <<" ">> \o Join(Tail(strings))

\* C31: once chunk_and_index has run with overlap 0, its chunks joined by single
\* spaces are the words of the text joined by single spaces, the words of the
\* chunks are the words of the text in order, and a text without a word gives
\* no chunk.
C31_ChunksJoinToTokens ==
    (chunker.pc = "done" /\ chunker.overlap = 0) =>
        /\ Join(chunker.chunks) = Join(split_whitespace(chunker.text))
        /\ Tokens(chunker.chunks) = split_whitespace(chunker.text)
        /\ (split_whitespace(chunker.text) = <<>> => chunker.chunks = <<>> /\ chunker.n = 0)

\* A text has been cut into more than one chunk, one of them of two words.
C31_Witness ==
    /\ chunker.pc = "done" /\ chunker.overlap = 0
    /\ Len(chunker.chunks) >= 2
    /\ \E i \in 1..Len(chunker.chunks) : Len(split_whitespace(chunker.chunks[i])) >= 2

\* C32: an answered GET or PUT of the settings shows, for every name K whose last
\* value sent by PUT is V, the value V when K is not a secret name and `****`
\* followed by the last four characters of V when it is, and the environment
\* variable K is V.
C32_GetAfterPut ==
    settings.resp.op \in {"get", "put"} =>
        \A k \in DOMAIN settings.put :
            /\ k \in DOMAIN settings.resp.settings
            /\ settings.resp.settings[k] =
                   IF is_secret_key(k) THEN Masked(settings.put[k]) ELSE settings.put[k]
            /\ k \in DOMAIN settings.env
            /\ settings.env[k] = settings.put[k]

(***************************************************************************)
(* Further properties of the job engine.                                   *)
(***************************************************************************)
\* The runner is running the pdf_glob job id and its glob has matched no file: the
\* extractor branch has recorded a total of 0, or the loader has nothing to index.
EmptyGlob(id) ==
    /\ cur = id /\ id \in DOMAIN JOBS /\ JOBS[id].kind = "pdf_glob"
    /\ \/ pc = "native" /\ files = 0
       \/ /\ pc \in HoldingPcs
          /\ IsSome(JOBS[id].progress)
          /\ Unwrap(JOBS[id].progress).total = Some(0)

\* C33: unless the process is killed first, a pdf_glob job whose glob matches no
\* file gets the status done.
C33_EmptyGlobDone ==
    \A id \in JobIds, c \in 0..MaxCrashes :
        (EmptyGlob(id) /\ crashes = c)
            ~> (crashes > c \/ (id \in DOMAIN JOBS /\ JOBS[id].status = "done"))

\* C34: is_retryable answers true for Network and Timeout, answers whether
\* retry_after is present for LlmService, EmbeddingService and ServiceUnavailable,
\* and answers false for every other kind, Serialization and Concurrency included.
C34_RetryableFollowsTaxonomy ==
    kberr.called = "is_retryable" =>
        kberr.retryable =
            CASE kberr.error.kind \in {"Network", "Timeout"} -> TRUE
              [] kberr.error.kind \in {"LlmService", "EmbeddingService", "ServiceUnavailable"} ->
                     kberr.error.retry_after # None
              [] OTHER -> FALSE

\* The words of a text, in lower case: what lies between its separators.
WordsOf(text) ==
    LET words == Split(to_lowercase(text)) IN {words[i] : i \in DOMAIN words}

\* The chunks whose text has a word that is a token of the query.
ChunksWithToken(index, q) ==
    {c \in DOMAIN index.documents :
        \E i \in DOMAIN tokenize(q) : tokenize(q)[i] \in WordsOf(index.documents[c])}

\* C35: a search returns only chunks whose text contains a token of the query,
\* each with a positive score and with the query tokens it contains as
\* matched_terms, and it returns all of them up to max_results.
C35_SearchReturnsMatches ==
    lexidx.searched =>
        LET results == lexidx.search.results
            q == lexidx.search.query
            matching == ChunksWithToken(lexidx, q)
            limit == IF IsSome(lexidx.search.max_results)
                     THEN Unwrap(lexidx.search.max_results) ELSE 10
        IN  /\ \A i \in DOMAIN results :
                  /\ results[i].chunk_id \in matching
                  /\ results[i].score > 0
                  /\ results[i].matched_terms =
                         SelectSeq(tokenize(q),
                                   LAMBDA t : t \in WordsOf(lexidx.documents[results[i].chunk_id]))
            /\ \A i, j \in DOMAIN results : i # j => results[i].chunk_id # results[j].chunk_id
            /\ Len(results) = Min(limit, Cardinality(matching))

\* The task awaits a lock that cannot be granted now.
Waiting(t) == NextOp(t).op = "acquire" /\ Holders(NextOp(t).lock, NextOp(t).mode) # {}

\* C36: job_runner never awaits a guard on JOBS while it holds one itself.
C36_RunnerNeverAwaitsOwnGuard ==
    ~(/\ NextOp("job_runner").op = "acquire"
      /\ \E i \in DOMAIN locking.held["job_runner"] :
            locking.held["job_runner"][i].lock = NextOp("job_runner").lock)

\* The order in which every task takes the three locks.
LockRank(lock) == CASE lock = "JOBS" -> 1 [] lock = "JOB_QUEUE" -> 2 [] lock = "IDEMPOTENCY" -> 3

\* Some tasks each await a lock that only tasks among them can release.
Deadlocked ==
    \E S \in SUBSET LockTasks :
        /\ S # {}
        /\ \A t \in S : Waiting(t) /\ Holders(NextOp(t).lock, NextOp(t).mode) \subseteq S

\* C38: a task that takes one of JOBS, JOB_QUEUE and IDEMPOTENCY while it holds
\* another guard takes them in the order JOBS, JOB_QUEUE, IDEMPOTENCY, and no set
\* of tasks is ever left awaiting locks that only its own members hold.
C38_LockOrderNoDeadlock ==
    /\ \A t \in LockTasks :
          NextOp(t).op = "acquire" =>
              \A i \in DOMAIN locking.held[t] :
                  LockRank(locking.held[t][i].lock) < LockRank(NextOp(t).lock)
    /\ ~Deadlocked

\* The progress of a job, when it is set.
ProgressOf(jobs, id) == Unwrap(jobs[id].progress)

HasProgress(jobs, id) == id \in DOMAIN jobs /\ IsSome(jobs[id].progress)

C37_SessionUpdatesSerial ==
    [][\A sid \in DOMAIN SESSIONS \cap DOMAIN SESSIONS' :
          SESSIONS'[sid] # SESSIONS[sid] =>
              /\ Len(SESSIONS'[sid].chat_history) = Len(SESSIONS[sid].chat_history) + 1
              /\ SubSeq(SESSIONS'[sid].chat_history, 1, Len(SESSIONS[sid].chat_history))
                     = SESSIONS[sid].chat_history]_vars

====
